---- MODULE Spec2Model ----
(***************************************************************************)
(* State-machine model of the asynchronous hooks of @openapi-docs/ui and   *)
(* of the parser they rely on:                                             *)
(*   - useApiLoader        (hooks/useApiLoader.ts, src/unnamed/part_003)   *)
(*   - useExecuteOperation (hooks/useExecuteOperation.ts, part_008)        *)
(*   - useCodeSnippet      (hooks/useCodeSnippet.ts), generate/clearLast   *)
(*   - parseOpenApi and its helpers (dist/index.js)                        *)
(*                                                                         *)
(* JavaScript runs every synchronous stretch of code to completion; an     *)
(* async function is cut into steps at its awaits.  Each action below is   *)
(* one such stretch.  React state is modelled by the value last passed to  *)
(* its setter; the value a memoised callback closed over at the last       *)
(* render is kept separately where the code reads it (renderedUrl).        *)
(***************************************************************************)
EXTENDS Integers, Sequences, FiniteSets, TLC

\* ---------------------------------------------------------------- bounds
MaxRetries == 2
MaxTime == 2
MaxPaths == 2
MaxEndpoints == 2

\* ------------------------------------------------------------- constants
\* useApiLoader.ts: retries = 3, cacheDuration = 5 * 60 * 1000
DefaultRetries == 3
DefaultCacheDuration == 300000

\* an optional numeric property that was not supplied
undefined == -1

Urls == {"u1", "u2"}
Calls == {1, 2}

\* useState<string | null>(null) / useState<ParsedApiSpec | null>(null)
nullError == "null"
nullSpec == [src |-> "null", ver |-> "null"]

VARIABLES
  \* ---- the inputs the environment draws from (fixed by Init)
  profile,
  \* ---- useApiLoader instance
  initialConfig,   \* argument of useApiLoader (all properties absent = none)
  mounted,         \* the mount effect has run
  spec, loading, error, currentUrl,   \* the four useState cells
  renderedUrl,     \* currentUrl as captured by reload's closure
  specCache,       \* module-level Map<string, CacheEntry>
  now,             \* Date.now()
  call,            \* one record per loadSpec invocation slot
  microq           \* resolved promises whose continuation has not run yet

loaderVars == <<profile, initialConfig, mounted, spec, loading, error,
                currentUrl, renderedUrl, specCache, now, call, microq>>

VARIABLES
  \* ---- useExecuteOperation instance
  interceptors,        \* which of onRequest / onResponse / onError are set
  baseUrl,             \* the base URL buildUrl finds ("" when there is none)
  exLoading, exError, exResult,   \* its three useState cells
  abortControllerRef,  \* useRef<AbortController | null>(null)
  aborted,             \* the controllers whose signal is aborted
  req,                 \* one record per executeRequest invocation slot
  \* ---- ApiContext and useCodeSnippet instance
  apiSpec,             \* the spec of the context: loaded or not, endpoints
  lastGenerated,       \* useState<CodeSnippetResult | null>(null)
  generated            \* how the last generate(operationId) call ended

execVars == <<interceptors, baseUrl, exLoading, exError, exResult,
              abortControllerRef, aborted, req, apiSpec, lastGenerated,
              generated>>

VARIABLES
  \* ---- parsing/parseOpenApi
  doc,        \* the OpenAPI document given to parseOpenApi
  parsedApi,  \* what parseOpenApi returned
  result      \* the last helper call: its name, its argument, its outcome

parseVars == <<doc, parsedApi, result>>

VARIABLES
  \* ---- useSearch instance
  allEndpoints,  \* const endpoints = useEndpoints()
  options,       \* the SearchOptions the hook was called with
  filters,       \* useState<SearchFilters>({})
  results        \* filteredResults, the memo of the last render

searchVars == <<allEndpoints, options, filters, results>>

VARIABLES
  \* ---- buildUrl of useExecuteOperation and of useCodeSnippet
  urlArgs,       \* the endpoint path, base URL, pathParams and queryParams
  built          \* what each of the two buildUrl returned for them

urlVars == <<urlArgs, built>>

vars == <<loaderVars, execVars, parseVars, searchVars, urlVars>>

\* ------------------------------------------------------------ ApiLoaderConfig
NoConfig == [url |-> "", spec |-> "", retries |-> undefined,
             cacheDuration |-> undefined]

UrlConfig(u, r, d) == [url |-> u, spec |-> "", retries |-> r,
                       cacheDuration |-> d]

InlineConfig(s) == [url |-> "", spec |-> s, retries |-> undefined,
                    cacheDuration |-> undefined]

RetryValues == {undefined} \cup (0..MaxRetries)
DurationValues == {undefined, 0, 1}

\* How one transport attempt can go wrong: a rejected fetch, a non-2xx
\* response (defaultFetcher 43-47), text that parseOpenApi rejects.
Failures == {"net", "http", "parse"}

\* The state space is explored per family of inputs:
\*   "retry"  one url, every retries value, every kind of failure;
\*   "cache"  two urls, two upstream versions, cacheDuration values and
\*            the clock;
\*   "race"   two overlapping loadSpec calls.
Profiles == {"retry", "cache", "race"}

\* The configs handed to loadSpec.
ConfigsOf(p) ==
  CASE p = "retry" ->
         {UrlConfig("u1", r, undefined) : r \in RetryValues}
           \cup {NoConfig, InlineConfig("bad")}
    [] p = "cache" ->
         {UrlConfig(u, undefined, d) : u \in Urls, d \in DurationValues}
           \cup {InlineConfig("good"), InlineConfig("bad"), NoConfig,
                 [InlineConfig("good") EXCEPT !.url = "u1"]}
    [] p = "race" ->
         {UrlConfig(u, undefined, undefined) : u \in Urls}
           \cup {InlineConfig("good"), NoConfig}

\* The configs a hook instance is constructed with.
InitialConfigsOf(p) ==
  CASE p = "retry" -> {NoConfig, UrlConfig("u1", 0, undefined),
                       UrlConfig("u1", 1, undefined)}
    [] p = "cache" -> {UrlConfig("u1", 0, 1), UrlConfig("", 0, 0),
                       InlineConfig("good")}
    [] p = "race" -> {UrlConfig("u1", 1, undefined), UrlConfig("", 0, 1)}

VersionsOf(p) == IF p = "cache" THEN {"v1", "v2"} ELSE {"v1"}

FailuresOf(p) == IF p = "retry" THEN Failures ELSE {"net"}

\* loadSpec invocations that may be in flight together
SlotsOf(p) == IF p = "race" THEN 2 ELSE 1

\* how far the clock runs
ClockOf(p) == IF p = "cache" THEN MaxTime ELSE 1

\* ------------------------------------------------------------ pure helpers
\* JavaScript  a || b  on an optional number: undefined and 0 are both falsy.
OrElse(a, b) == IF a = undefined \/ a = 0 THEN b ELSE a

\* Destructuring default  { x = dflt } = obj : applies to undefined only.
Default(a, dflt) == IF a = undefined THEN dflt ELSE a

\* useApiLoader.ts 59-64: hook-level settings read off initialConfig
retries == Default(initialConfig.retries, DefaultRetries)
cacheDuration == Default(initialConfig.cacheDuration, DefaultCacheDuration)

\* loadFromUrl 84
MaxRetriesOf(r) == OrElse(r, retries)

\* loadFromUrl 78
CacheDurationOf(d) == OrElse(d, cacheDuration)

\* A cache check that also accepts an entry exactly cacheDuration old.
CacheHit_Inclusive(url, config) ==
  /\ url \in DOMAIN specCache
  /\ now - specCache[url].timestamp <= CacheDurationOf(config.cacheDuration)

\* loadFromUrl 75-79: the cache holds a fresh entry for url
CacheHit(url, config) ==
  /\ url \in DOMAIN specCache
  /\ now - specCache[url].timestamp < CacheDurationOf(config.cacheDuration)

\* The message each kind of failure leaves.
MessageOf(failure) ==
  CASE failure = "net" -> "Network error"
    [] failure = "http" -> "Failed to fetch spec: 404 Not Found"
    [] failure = "parse" -> "Failed to parse OpenAPI specification"

MissingSourceMessage == "Either url or spec must be provided"

ParsedSpec(src, ver) == [src |-> src, ver |-> ver]

\* ------------------------------------------------ useExecuteOperation state
Requests == {1, 2}

\* abortControllerRef.current === null
NoController == 0

nullResult == "null"

\* fetch has not been called
NotSent == [url |-> "", init |-> ""]

\* no response has arrived
NoResponse == [status |-> 0, body |-> "none"]

NoInterceptors == [onRequest |-> FALSE, onResponse |-> FALSE,
                   onError |-> FALSE]

\* pc:  "idle"        never used
\*      "onRequest"   awaiting interceptors.onRequest (315)
\*      "fetch"       awaiting fetch and the body (321-333)
\*      "onResponse"  awaiting interceptors.onResponse (346)
\*      "onError"     awaiting interceptors.onError (367)
\*      "done"        the promise execute returned is settled
\* signal is the controller whose signal went into init (307); settled, name
\* and message describe the promise; ended names how the request went;
\* onErrorCalled records that interceptors.onError was invoked.
\* op is the operationId executeById was given and endpoint the id of the
\* endpoint executeRequest was given; returned is what onRequest
\* returned and sent what fetch was called with; response is the status and
\* the kind of body that arrived; onResponseCalled records that
\* interceptors.onResponse was invoked.
IdleRequest == [pc |-> "idle", signal |-> NoController, settled |-> "none",
                name |-> "", message |-> "", ended |-> "none",
                onErrorCalled |-> FALSE, op |-> "", endpoint |-> "",
                returned |-> NotSent,
                sent |-> NotSent, response |-> NoResponse,
                onResponseCalled |-> FALSE]

\* spec === null in the context
NotLoaded == [loaded |-> FALSE, endpoints |-> <<>>]

\* lastGenerated === null
nullSnippet == "null"

NotGenerated == [op |-> "", thrown |-> ""]

ExecConstructed ==
  /\ interceptors = NoInterceptors
  /\ baseUrl = "https://api"
  /\ exLoading = FALSE
  /\ exError = nullError
  /\ exResult = nullResult
  /\ abortControllerRef = NoController
  /\ aborted = {}
  /\ req = [r \in Requests |-> IdleRequest]
  /\ apiSpec = NotLoaded
  /\ lastGenerated = nullSnippet
  /\ generated = NotGenerated

\* --------------------------------------------------- parseOpenApi state
\* JSON values.  Every value carries its kind; an object carries its
\* own properties as a function from keys to values.
undefinedValue == [kind |-> "undefined"]

nullValue == [kind |-> "null"]

Bool(b) == [kind |-> "boolean", value |-> b]

Str(s) == [kind |-> "string", value |-> s]

Arr(items) == [kind |-> "array", items |-> items]

Obj(props) == [kind |-> "object", props |-> props]

\* a function object, as found on Object.prototype
Fn(name) == [kind |-> "function", name |-> name]

NotParsed == [ok |-> FALSE, endpoints |-> <<>>, schemas |-> <<>>]

NoResult == [op |-> "none", arg |-> "", value |-> ""]

\* The document of a behaviour that parses none.
NoDocument == [paths |-> <<>>, components |-> Obj(<<>>)]

ParseConstructed ==
  /\ doc = NoDocument
  /\ parsedApi = NotParsed
  /\ result = NoResult

\* ---- useSearch values
\* {}: no filter key is set (a key that holds undefined reads the same)
NoFilters ==
  [query |-> undefinedValue, methods |-> undefinedValue,
   tags |-> undefinedValue, deprecated |-> undefinedValue,
   hasParameters |-> undefinedValue, hasRequestBody |-> undefinedValue,
   responseStatusCodes |-> undefinedValue]

\* useSearch(): caseSensitive = false, fuzzySearch = false,
\* minQueryLength = 1; searchFields (all seven) is left at its default
DefaultOptions ==
  [caseSensitive |-> FALSE, fuzzySearch |-> FALSE, minQueryLength |-> 1]

SearchConstructed ==
  /\ allEndpoints = <<>>
  /\ options = DefaultOptions
  /\ filters = NoFilters
  /\ results = <<>>

\* ---- buildUrl values
NoUrlArgs ==
  [baseUrl |-> "", path |-> <<>>, pathParams |-> <<>>, queryParams |-> <<>>]

NotBuilt == [execute |-> <<>>, snippet |-> <<>>]

UrlConstructed ==
  /\ urlArgs = NoUrlArgs
  /\ built = NotBuilt

\* ------------------------------------------------------------ call slots
\* pc:  "idle"     never used
\*      "started"  loadSpec has run lines 126-127 and is about to enter try
\*      "hit"      loadFromUrl returned the cached spec; continuation queued
\*      "fetching" fetchFn(url) is pending
\*      "sleeping" the backoff timer is pending
\*      "done"     loadSpec has returned
\* config is the argument, read by the try block; url and retries are what
\* loadFromUrl keeps of it.
\* value is the spec a cache hit returned (80), held by the pending promise.
\* fetches counts the transport invocations of the call and parses its
\* parseOpenApi invocations (92, 119), outcome records how it ended; alone
\* stays TRUE while no other call overlapped it; via names
\* the caller, and fresh that reload found a valid cache entry to delete.
\* latest marks the invocation that was started last.
IdleCall == [pc |-> "idle", config |-> NoConfig, url |-> "",
             retries |-> undefined, attempt |-> 0,
             lastError |-> nullError, fetches |-> 0, parses |-> 0,
             outcome |-> "none",
             value |-> nullSpec, alone |-> TRUE, via |-> "none",
             fresh |-> FALSE, latest |-> FALSE]

InFlight(c) == call[c].pc \in {"started", "hit", "fetching", "sleeping"}

Free(c) == ~InFlight(c)

\* A synchronous stretch of loadSpec is between its two halves.
Running == \E c \in Calls : call[c].pc = "started"

\* The slot a new invocation takes: the lowest free one.
Slot(c) ==
  /\ c <= SlotsOf(profile)
  /\ Free(c)
  /\ \A d \in Calls : d < c => InFlight(d)

Others(c) == Calls \ {c}

LoaderInit ==
  /\ profile \in Profiles
  /\ initialConfig \in InitialConfigsOf(profile)
  /\ mounted = FALSE
  /\ spec = nullSpec
  /\ loading = FALSE
  /\ error = nullError
  /\ currentUrl = initialConfig.url
  /\ renderedUrl = initialConfig.url
  /\ specCache = <<>>
  /\ now = 0
  /\ call = [c \in Calls |-> IdleCall]
  /\ microq = <<>>
  /\ ExecConstructed
  /\ ParseConstructed
  /\ SearchConstructed
  /\ UrlConstructed

\* ------------------------------------------------------------ loadSpec
\* loadSpec 126-127: setLoading(true); setError(null).  The caller is the
\* application (LoadSpec), the mount effect (Mount) or reload (Reload).
Begin(c, config, caller, hadEntry) ==
  /\ loading' = TRUE
  /\ error' = nullError
  /\ call' = [d \in Calls |->
               IF d = c
                 THEN [IdleCall EXCEPT !.pc = "started", !.config = config,
                         !.alone = \A e \in Others(c) : Free(e),
                         !.via = caller, !.fresh = hadEntry,
                         !.latest = TRUE]
                 ELSE IF InFlight(d)
                   THEN [call[d] EXCEPT !.alone = FALSE, !.latest = FALSE]
                 ELSE [call[d] EXCEPT !.latest = FALSE]]

\* loadSpec 150-152 reached with a parsed spec (142) ...
Succeed(c, parsed, how) ==
  /\ spec' = parsed
  /\ loading' = FALSE
  /\ call' = [call EXCEPT ![c].pc = "done", ![c].outcome = how,
                          ![c].parses = IF how = "hit" THEN @ ELSE @ + 1,
                          ![c].value = nullSpec, ![c].config = NoConfig]
  /\ UNCHANGED error

\* parseOpenApi ran, and threw, when the error is its own (92, 119).
Parsed(message) == IF message = MessageOf("parse") THEN 1 ELSE 0

\* ... or through the catch block (143-149)
Fail(c, message) ==
  /\ error' = message
  /\ spec' = nullSpec
  /\ loading' = FALSE
  /\ call' = [call EXCEPT ![c].pc = "done", ![c].outcome = "error",
                          ![c].parses = @ + Parsed(message),
                          ![c].lastError = message, ![c].config = NoConfig]

\* What the call keeps of its argument once loadFromUrl (or loadFromSpec) has
\* read it.
Kept(c, config) ==
  [call[c] EXCEPT !.config = NoConfig, !.url = config.url,
                  !.retries = config.retries]

\* A loadFromUrl that joins the fetch another call has pending for the url.
EnterUrl_Coalesced(c, config) ==
  /\ currentUrl' = config.url
  /\ IF CacheHit(config.url, config)
       THEN /\ call' = [call EXCEPT ![c] =
                         [Kept(c, config) EXCEPT !.pc = "hit",
                            !.value = specCache[config.url].spec]]
            /\ microq' = Append(microq, c)
       ELSE /\ call' = [call EXCEPT ![c] =
                         [Kept(c, config) EXCEPT !.pc = "fetching",
                            !.fetches =
                              IF \E d \in Others(c) :
                                   /\ call[d].pc = "fetching"
                                   /\ call[d].url = config.url
                                THEN 0 ELSE 1]]
            /\ UNCHANGED microq
  /\ UNCHANGED <<spec, loading, error, specCache>>

\* loadFromUrl 74-91 up to its first await: the cache check and, on a miss,
\* the first fetchFn(url)
EnterUrl(c, config) ==
  /\ currentUrl' = config.url
  /\ IF CacheHit(config.url, config)
       THEN /\ call' = [call EXCEPT ![c] =
                         [Kept(c, config) EXCEPT !.pc = "hit",
                            !.value = specCache[config.url].spec]]
            /\ microq' = Append(microq, c)
       ELSE /\ call' = [call EXCEPT ![c] =
                         [Kept(c, config) EXCEPT !.pc = "fetching",
                            !.fetches = 1]]
            /\ UNCHANGED microq
  /\ UNCHANGED <<spec, loading, error, specCache>>

\* An inline load that stores what it parsed under the last url.
EnterInline_Cached(c, config) ==
  /\ currentUrl' = ""
  /\ IF config.spec = "good"
       THEN /\ Succeed(c, ParsedSpec("inline", "v1"), "ok")
            /\ specCache' = [u \in DOMAIN specCache \cup {currentUrl} |->
                               [spec |-> ParsedSpec("inline", "v1"),
                                timestamp |-> now]]
       ELSE /\ Fail(c, MessageOf("parse"))
            /\ UNCHANGED specCache
  /\ UNCHANGED microq

\* loadSpec 135-137 with loadFromSpec 117-122: one synchronous parse
EnterInline(c, config) ==
  /\ currentUrl' = ""
  /\ IF config.spec = "good"
       THEN Succeed(c, ParsedSpec("inline", "v1"), "ok")
       ELSE Fail(c, MessageOf("parse"))
  /\ UNCHANGED <<specCache, microq>>

\* A missing-source branch without the finally block.
EnterNeither_StaysLoading(c) ==
  /\ error' = MissingSourceMessage
  /\ spec' = nullSpec
  /\ call' = [call EXCEPT ![c].pc = "done", ![c].outcome = "error",
                          ![c].lastError = MissingSourceMessage,
                          ![c].config = NoConfig]
  /\ UNCHANGED <<loading, currentUrl, specCache, microq>>

\* loadSpec 138-140
EnterNeither(c) ==
  /\ Fail(c, MissingSourceMessage)
  /\ UNCHANGED <<currentUrl, specCache, microq>>

\* loadSpec 129-141: the try block up to the first await
Enter(c) ==
  /\ call[c].pc = "started"
  /\ LET config == call[c].config IN
       IF config.url # "" THEN EnterUrl(c, config)
       ELSE IF config.spec # "" THEN EnterInline(c, config)
       ELSE EnterNeither(c)
  /\ UNCHANGED <<execVars, parseVars, searchVars, urlVars>>
  /\ UNCHANGED <<profile, initialConfig, mounted, renderedUrl, now>>

\* The application calls loadSpec(config).
LoadSpec(c, config) ==
  /\ mounted /\ ~Running /\ Slot(c)
  /\ Begin(c, config, "loadSpec", FALSE)
  /\ UNCHANGED <<execVars, parseVars, searchVars, urlVars>>
  /\ UNCHANGED <<profile, initialConfig, mounted, spec, currentUrl, renderedUrl,
                 specCache, now, microq>>

\* useEffect 172-176
Mount(c) ==
  /\ ~mounted /\ Slot(c)
  /\ mounted' = TRUE
  /\ IF initialConfig.url # "" \/ initialConfig.spec # ""
       THEN Begin(c, initialConfig, "mount", FALSE)
       ELSE UNCHANGED <<loading, error, call>>
  /\ UNCHANGED <<execVars, parseVars, searchVars, urlVars>>
  /\ UNCHANGED <<profile, initialConfig, spec, currentUrl, renderedUrl, specCache,
                 now, microq>>

\* A reload that leaves the cache entry in place.
Reload_KeepsEntry(c) ==
  /\ mounted /\ ~Running /\ Slot(c)
  /\ renderedUrl # ""
  /\ LET config == UrlConfig(renderedUrl, retries, cacheDuration) IN
       Begin(c, config, "reload", CacheHit(renderedUrl, config))
  /\ UNCHANGED <<execVars, parseVars, searchVars, urlVars>>
  /\ UNCHANGED <<profile, initialConfig, mounted, spec, currentUrl,
                 renderedUrl, specCache, now, microq>>

\* reload 157-169; currentUrl is the one of the last render
Reload(c) ==
  /\ mounted /\ ~Running /\ Slot(c)
  /\ renderedUrl # ""
  /\ specCache' = [u \in DOMAIN specCache \ {renderedUrl} |-> specCache[u]]
  /\ LET config == UrlConfig(renderedUrl, retries, cacheDuration) IN
       Begin(c, config, "reload", CacheHit(renderedUrl, config))
  /\ UNCHANGED <<execVars, parseVars, searchVars, urlVars>>
  /\ UNCHANGED <<profile, initialConfig, mounted, spec, currentUrl, renderedUrl, now,
                 microq>>

\* clearSpecCache 190-192
ClearSpecCache ==
  /\ ~Running
  /\ specCache' = <<>>
  /\ UNCHANGED <<execVars, parseVars, searchVars, urlVars>>
  /\ UNCHANGED <<profile, initialConfig, mounted, spec, loading, error, currentUrl,
                 renderedUrl, now, call, microq>>

\* A re-render: reload is re-created over the current currentUrl.
Render ==
  /\ ~Running
  /\ renderedUrl # currentUrl
  /\ renderedUrl' = currentUrl
  /\ UNCHANGED <<execVars, parseVars, searchVars, urlVars>>
  /\ UNCHANGED <<profile, initialConfig, mounted, spec, loading, error, currentUrl,
                 specCache, now, call, microq>>

\* loadSpec 134 resumes after loadFromUrl returned the cached spec (80)
ResumeHit(c) ==
  /\ ~Running
  /\ microq # <<>> /\ Head(microq) = c
  /\ microq' = Tail(microq)
  /\ Succeed(c, call[c].value, "hit")
  /\ UNCHANGED <<execVars, parseVars, searchVars, urlVars>>
  /\ UNCHANGED <<profile, initialConfig, mounted, currentUrl, renderedUrl, specCache,
                 now>>

\* A retry loop that stops one attempt short.
ShouldRetry_GivesUpEarly(attempt, r) == attempt + 1 < MaxRetriesOf(r)

\* loadFromUrl 104: another attempt follows the failed one
ShouldRetry(attempt, r) == attempt < MaxRetriesOf(r)

\* loadFromUrl 102: the error the loop remembers
Remember(previous, message) == message

\* The tasks below start from an empty microtask queue.
TaskReady == ~Running /\ microq = <<>>

\* loadFromUrl 91-100 and loadSpec 142, 151: the text arrived and parsed
FetchResolve(c, ver) ==
  /\ TaskReady
  /\ call[c].pc = "fetching"
  /\ LET url == call[c].url
         parsedSpec == ParsedSpec(url, ver)
     IN /\ specCache' = [u \in DOMAIN specCache \cup {url} |->
                          IF u = url
                            THEN [spec |-> parsedSpec, timestamp |-> now]
                            ELSE specCache[u]]
        /\ Succeed(c, parsedSpec, "ok")
  /\ UNCHANGED <<execVars, parseVars, searchVars, urlVars>>
  /\ UNCHANGED <<profile, initialConfig, mounted, currentUrl, renderedUrl, now,
                 microq>>

\* loadFromUrl 101-109: the attempt failed and the loop sleeps
FetchRetry(c, failure) ==
  /\ TaskReady
  /\ call[c].pc = "fetching"
  /\ ShouldRetry(call[c].attempt, call[c].retries)
  /\ call' = [call EXCEPT ![c].pc = "sleeping",
                ![c].parses = @ + Parsed(MessageOf(failure)),
                ![c].lastError = Remember(@, MessageOf(failure))]
  /\ UNCHANGED <<execVars, parseVars, searchVars, urlVars>>
  /\ UNCHANGED <<profile, initialConfig, mounted, spec, loading, error, currentUrl,
                 renderedUrl, specCache, now, microq>>

\* loadFromUrl 101-112 and loadSpec 143-152: the last attempt failed
FetchExhaust(c, failure) ==
  /\ TaskReady
  /\ call[c].pc = "fetching"
  /\ ~ShouldRetry(call[c].attempt, call[c].retries)
  /\ Fail(c, Remember(call[c].lastError, MessageOf(failure)))
  /\ UNCHANGED <<execVars, parseVars, searchVars, urlVars>>
  /\ UNCHANGED <<profile, initialConfig, mounted, currentUrl, renderedUrl, specCache,
                 now, microq>>

\* loadFromUrl 105-107, 89-91: the timer fires, attempt++, fetchFn(url)
TimerFires(c) ==
  /\ TaskReady
  /\ call[c].pc = "sleeping"
  /\ call' = [call EXCEPT ![c].pc = "fetching", ![c].attempt = @ + 1,
                          ![c].fetches = @ + 1]
  /\ UNCHANGED <<execVars, parseVars, searchVars, urlVars>>
  /\ UNCHANGED <<profile, initialConfig, mounted, spec, loading, error, currentUrl,
                 renderedUrl, specCache, now, microq>>

\* A clock that evicts the entries whose duration has passed.
Tick_Evicts ==
  /\ TaskReady
  /\ now < ClockOf(profile)
  /\ now' = now + 1
  /\ specCache' = [u \in {v \in DOMAIN specCache :
                            now' - specCache[v].timestamp < cacheDuration} |->
                     specCache[u]]
  /\ UNCHANGED <<execVars, parseVars, searchVars, urlVars>>
  /\ UNCHANGED <<profile, initialConfig, mounted, spec, loading, error, currentUrl,
                 renderedUrl, call, microq>>

\* Date.now() advances.
Tick ==
  /\ TaskReady
  /\ now < ClockOf(profile)
  /\ now' = now + 1
  /\ UNCHANGED <<execVars, parseVars, searchVars, urlVars>>
  /\ UNCHANGED <<profile, initialConfig, mounted, spec, loading, error, currentUrl,
                 renderedUrl, specCache, call, microq>>

LoaderNext ==
  \/ \E c \in Calls : Mount(c)
  \/ \E c \in Calls, config \in ConfigsOf(profile) : LoadSpec(c, config)
  \/ \E c \in Calls : Enter(c)
  \/ \E c \in Calls : Reload(c)
  \/ ClearSpecCache
  \/ Render
  \/ \E c \in Calls : ResumeHit(c)
  \/ \E c \in Calls, ver \in VersionsOf(profile) : FetchResolve(c, ver)
  \/ \E c \in Calls, failure \in FailuresOf(profile) : FetchRetry(c, failure)
  \/ \E c \in Calls, failure \in FailuresOf(profile) : FetchExhaust(c, failure)
  \/ \E c \in Calls : TimerFires(c)
  \/ Tick

SpecLoader == LoaderInit /\ [][LoaderNext]_vars

\* ======================================================= useExecuteOperation
loaderConstructed ==
  /\ initialConfig = NoConfig
  /\ mounted = FALSE
  /\ spec = nullSpec
  /\ loading = FALSE
  /\ error = nullError
  /\ currentUrl = ""
  /\ renderedUrl = ""
  /\ specCache = <<>>
  /\ now = 0
  /\ call = [c \in Calls |-> IdleCall]
  /\ microq = <<>>

\* The interceptors a hook instance is configured with.
InterceptorSets ==
  {NoInterceptors,
   [onRequest |-> TRUE, onResponse |-> TRUE, onError |-> TRUE],
   [onRequest |-> FALSE, onResponse |-> FALSE, onError |-> TRUE]}

\* An endpoint of the parsed spec, as far as the two hooks read it.
Endpoint(id, operationId) == [id |-> id, operationId |-> operationId]

\* operationId: undefined
noOperationId == "undefined"

\* The specs the context holds: none, or one whose first endpoint declares an
\* operationId and whose second has the derived id only.
ApiSpecs ==
  {NotLoaded,
   [loaded |-> TRUE,
    endpoints |-> <<Endpoint("listUsers", "listUsers"),
                    Endpoint("GET__health", noOperationId)>>]}

\* The operation IDs callers ask for.
OperationIds == {"listUsers", "GET__health", "deleteUser"}

\* The hook a behaviour drives: useExecuteOperation or useCodeSnippet.  The
\* two share the spec of the context and nothing else.
ExecProfiles == {"execute", "snippet"}

ExecInit ==
  /\ profile \in ExecProfiles
  /\ loaderConstructed
  /\ interceptors \in InterceptorSets
  /\ baseUrl \in {"", "https://api"}
  /\ exLoading = FALSE
  /\ exError = nullError
  /\ exResult = nullResult
  /\ abortControllerRef = NoController
  /\ aborted = {}
  /\ req = [r \in Requests |-> IdleRequest]
  /\ apiSpec \in ApiSpecs
  /\ lastGenerated = nullSnippet
  /\ generated = NotGenerated
  /\ ParseConstructed
  /\ SearchConstructed
  /\ UrlConstructed

Pending(r) == req[r].pc \in {"onRequest", "fetch", "onResponse", "onError"}

ExecSlot(r) ==
  /\ profile = "execute"
  /\ ~Pending(r) /\ \A q \in Requests : q < r => Pending(q)

\* new AbortController(): an object no pending request and no ref holds
FreshController ==
  CHOOSE k \in 1..(Cardinality(Requests) + 1) :
    /\ k # abortControllerRef
    /\ \A q \in Requests : Pending(q) => req[q].signal # k

HttpMessage == "HTTP 500: Internal Server Error"
BodyMessage == "User not found"
NullBodyMessage == "Cannot read properties of null (reading 'message')"
MalformedBodyMessage == "Unexpected end of JSON input"
InterceptorMessage == "onRequest failed"
NoSpecMessage == "No API specification loaded"
NoSpecAvailableMessage == "No API spec available"

\* A message that leaves the operation ID out.
NotFoundMessage_Generic(operationId) == "Operation not found"

\* executeById 398, generate 634
NotFoundMessage(operationId) ==
  "Operation with ID \"" \o operationId \o "\" not found"

\* What fetch is called with when no interceptor rewrites it (187, 301-311).
BuiltRequest == [url |-> "https://api/users", init |-> "init"]

\* What interceptors.onRequest may return: its arguments, or a url and an
\* init of its own (init keeps the signal).
InterceptedRequests ==
  {BuiltRequest,
   [url |-> "https://api/users?intercepted=true", init |-> "intercepted"]}

\* The bodies a non-2xx response arrives with: a JSON object with a message,
\* a body without one (JSON, text or blob), the JSON value null, and a body
\* declared as JSON that does not parse.
ErrorBodies == {"message", "plain", "null", "malformed"}

OkResponse == [status |-> 200, body |-> "plain"]

ErrorResponse(body) == [status |-> 500, body |-> body]

\* executeRequest 324-341 for a non-2xx response: what the try block throws.
\* response.json() rejects on a body that does not parse (328); typeof null
\* is "object", so data.message is read off null (338).
Thrown(body) ==
  CASE body = "malformed" ->
         [name |-> "SyntaxError", message |-> MalformedBodyMessage]
    [] body = "null" ->
         [name |-> "TypeError", message |-> NullBodyMessage]
    [] body = "message" -> [name |-> "Error", message |-> BodyMessage]
    [] OTHER -> [name |-> "Error", message |-> HttpMessage]
NetworkMessage == "Failed to fetch"
AbortMessage == "The operation was aborted."
NoBaseUrlMessage == "No base URL available."

\* A catch block that treats every error alike.
IsAbort_Never(name) == FALSE

\* executeRequest 362: an aborted request is told by the name of its error
IsAbort(name) == name = "AbortError"

\* executeRequest 372-375 on the way out, the promise settling as given
Finally(r, how, name, message, kind, response) ==
  /\ exLoading' = FALSE
  /\ abortControllerRef' = NoController
  /\ aborted' = aborted \ {req[r].signal}
  /\ req' = [req EXCEPT ![r].pc = "done", ![r].settled = how,
                        ![r].name = name, ![r].message = message,
                        ![r].ended = kind, ![r].response = response]

\* A catch block that returns quietly from an aborted request.
Catch_SwallowsAbort(r, name, message, kind, response) ==
  IF ~IsAbort(name)
    THEN /\ exError' = message
         /\ IF interceptors.onError
              THEN /\ req' = [req EXCEPT ![r].pc = "onError",
                                ![r].name = name, ![r].message = message,
                                ![r].ended = kind,
                                ![r].response = response,
                                ![r].onErrorCalled = TRUE]
                   /\ UNCHANGED <<exLoading, abortControllerRef, aborted>>
              ELSE Finally(r, "rejected", name, message, kind, response)
    ELSE /\ Finally(r, "resolved", "", "", kind, response)
         /\ UNCHANGED exError

\* executeRequest 358-371: the catch block, up to the await of onError
Catch(r, name, message, kind, response) ==
  IF ~IsAbort(name)
    THEN /\ exError' = message
         /\ IF interceptors.onError
              THEN /\ req' = [req EXCEPT ![r].pc = "onError",
                                ![r].name = name, ![r].message = message,
                                ![r].ended = kind,
                                ![r].response = response,
                                ![r].onErrorCalled = TRUE]
                   /\ UNCHANGED <<exLoading, abortControllerRef, aborted>>
              ELSE Finally(r, "rejected", name, message, kind, response)
    ELSE /\ Finally(r, "rejected", name, message, kind, response)
         /\ UNCHANGED exError

\* The record of a request that executeRequest was entered for.
Started(endpoint, operationId) ==
  [IdleRequest EXCEPT !.endpoint = endpoint.id, !.op = operationId]

\* executeRequest 220-321: the state is reset, a new controller goes into the ref and its signal into init, and
\* the function suspends at onRequest or at fetch; buildUrl throws at once
\* when there is no base URL (156-160).
ExecuteRequest(r, endpoint, operationId) ==
  /\ ExecSlot(r)
  /\ exResult' = nullResult
  /\ IF baseUrl = ""
       THEN /\ exError' = NoBaseUrlMessage
            /\ IF interceptors.onError
                 THEN /\ exLoading' = TRUE
                      /\ abortControllerRef' = FreshController
                      /\ req' = [req EXCEPT ![r] =
                                  [Started(endpoint, operationId) EXCEPT
                                     !.pc = "onError",
                                     !.signal = FreshController,
                                     !.name = "Error",
                                     !.message = NoBaseUrlMessage,
                                     !.ended = "nobase",
                                     !.onErrorCalled = TRUE]]
                 ELSE /\ exLoading' = FALSE
                      /\ abortControllerRef' = NoController
                      /\ req' = [req EXCEPT ![r] =
                                  [Started(endpoint, operationId) EXCEPT
                                     !.pc = "done",
                                     !.settled = "rejected",
                                     !.name = "Error",
                                     !.message = NoBaseUrlMessage,
                                     !.ended = "nobase"]]
       ELSE /\ exLoading' = TRUE
            /\ exError' = nullError
            /\ abortControllerRef' = FreshController
            /\ req' = [req EXCEPT ![r] =
                        [Started(endpoint, operationId) EXCEPT
                           !.pc = IF interceptors.onRequest THEN "onRequest"
                                  ELSE "fetch",
                           !.sent = IF interceptors.onRequest THEN NotSent
                                    ELSE BuiltRequest,
                           !.signal = FreshController]]
  /\ UNCHANGED <<apiSpec, lastGenerated, generated>>
  /\ UNCHANGED <<interceptors, baseUrl, aborted>>
  /\ UNCHANGED <<loaderVars, parseVars, searchVars, urlVars>>

\* The endpoint callers hand to execute.
SomeEndpoint == Endpoint("listUsers", "listUsers")

\* An executeRequest that cancels the request the ref still points to.
Execute_AbortsPrevious(r) ==
  /\ ExecSlot(r)
  /\ baseUrl # ""
  /\ exLoading' = TRUE
  /\ exError' = nullError
  /\ exResult' = nullResult
  /\ abortControllerRef' = FreshController
  /\ aborted' = aborted \cup ({abortControllerRef} \ {NoController})
  /\ req' = [req EXCEPT ![r] =
               [Started(SomeEndpoint, "") EXCEPT
                  !.pc = IF interceptors.onRequest THEN "onRequest"
                         ELSE "fetch",
                  !.sent = IF interceptors.onRequest THEN NotSent
                           ELSE BuiltRequest,
                  !.signal = FreshController]]
  /\ UNCHANGED <<apiSpec, lastGenerated, generated>>
  /\ UNCHANGED <<interceptors, baseUrl>>
  /\ UNCHANGED <<loaderVars, parseVars, searchVars, urlVars>>

\* execute 408-416
Execute(r) == ExecuteRequest(r, SomeEndpoint, "")

\* Array.prototype.find: the first element that satisfies the test (hits
\* being the indexes of those that do), as a set of at most one element.
Find(endpoints, hits) ==
  IF hits = {} THEN {}
  ELSE {endpoints[CHOOSE i \in hits : \A j \in hits : i <= j]}

\* findEndpointById
FindEndpointById(endpoints, id) ==
  Find(endpoints, {i \in DOMAIN endpoints : endpoints[i].id = id})

\* executeById 395-397
FindByOperationId(endpoints, operationId) ==
  Find(endpoints,
       {i \in DOMAIN endpoints : endpoints[i].operationId = operationId})

\* An async function that throws before its first await: the promise it
\* returns is rejected and nothing else has happened.
Rejects(r, operationId, message, kind) ==
  /\ req' = [req EXCEPT ![r] =
               [IdleRequest EXCEPT !.pc = "done", !.settled = "rejected",
                  !.name = "Error", !.message = message, !.ended = kind,
                  !.op = operationId]]
  /\ UNCHANGED <<apiSpec, lastGenerated, generated>>
  /\ UNCHANGED <<interceptors, baseUrl, exLoading, exError, exResult,
                 abortControllerRef, aborted>>
  /\ UNCHANGED <<loaderVars, parseVars, searchVars, urlVars>>

\* executeById 387-406
ExecuteById(r, operationId) ==
  IF ~apiSpec.loaded
    THEN ExecSlot(r) /\ Rejects(r, operationId, NoSpecMessage, "nospec")
  ELSE IF FindByOperationId(apiSpec.endpoints, operationId) = {}
    THEN /\ ExecSlot(r)
         /\ Rejects(r, operationId, NotFoundMessage(operationId), "notfound")
  ELSE ExecuteRequest(r,
         CHOOSE e \in FindByOperationId(apiSpec.endpoints, operationId) : TRUE,
         operationId)

\* generateForEndpoint: the snippet of an endpoint
SnippetFor(endpoint) == "code for " \o endpoint.id

\* useCodeSnippet generate 626-639
Generate(operationId) ==
  /\ profile = "snippet"
  /\ IF ~apiSpec.loaded
       THEN /\ generated' = [op |-> operationId,
                              thrown |-> NoSpecAvailableMessage]
            /\ UNCHANGED lastGenerated
       ELSE LET found == FindEndpointById(apiSpec.endpoints, operationId) IN
              IF found = {}
                THEN /\ generated' = [op |-> operationId,
                                       thrown |-> NotFoundMessage(operationId)]
                     /\ UNCHANGED lastGenerated
                ELSE /\ generated' = [op |-> operationId, thrown |-> ""]
                     /\ lastGenerated' = SnippetFor(CHOOSE e \in found : TRUE)
  /\ UNCHANGED <<apiSpec, interceptors, baseUrl, exLoading, exError,
                 exResult, abortControllerRef, aborted, req>>
  /\ UNCHANGED <<loaderVars, parseVars, searchVars, urlVars>>

\* useCodeSnippet clearLast
ClearLast ==
  /\ profile = "snippet"
  /\ lastGenerated' = nullSnippet
  /\ UNCHANGED <<apiSpec, generated, interceptors, baseUrl, exLoading,
                 exError, exResult, abortControllerRef, aborted, req>>
  /\ UNCHANGED <<loaderVars, parseVars, searchVars, urlVars>>

\* A fetch issued with the url and init built before the interceptor ran.
OnRequestDone_SendsBuilt(r, returned) ==
  /\ req[r].pc = "onRequest"
  /\ req' = [req EXCEPT ![r].pc = "fetch", ![r].returned = returned,
                        ![r].sent = BuiltRequest]
  /\ UNCHANGED <<apiSpec, lastGenerated, generated>>
  /\ UNCHANGED <<interceptors, baseUrl, exLoading, exError, exResult,
                 abortControllerRef, aborted>>
  /\ UNCHANGED <<loaderVars, parseVars, searchVars, urlVars>>

\* executeRequest 315-321: onRequest returned; fetch(url, init) is issued
\* with what it returned
OnRequestDone(r, returned) ==
  /\ req[r].pc = "onRequest"
  /\ req' = [req EXCEPT ![r].pc = "fetch", ![r].returned = returned,
                        ![r].sent = returned]
  /\ UNCHANGED <<apiSpec, lastGenerated, generated>>
  /\ UNCHANGED <<interceptors, baseUrl, exLoading, exError, exResult,
                 abortControllerRef, aborted>>
  /\ UNCHANGED <<loaderVars, parseVars, searchVars, urlVars>>

\* executeRequest 315, 358-371: onRequest rejected; fetch is never called
OnRequestFailed(r) ==
  /\ req[r].pc = "onRequest"
  /\ Catch(r, "Error", InterceptorMessage, "interceptor", NoResponse)
  /\ UNCHANGED <<apiSpec, lastGenerated, generated>>
  /\ UNCHANGED <<interceptors, baseUrl, exResult>>
  /\ UNCHANGED <<loaderVars, parseVars, searchVars, urlVars>>

\* executeRequest 349-357, 372-375
Return(r) ==
  /\ exResult' = "result"
  /\ Finally(r, "resolved", "", "", "ok", OkResponse)
  /\ UNCHANGED exError

\* executeRequest 321-347: a 2xx response arrived and its body was read
FetchOk(r) ==
  /\ req[r].pc = "fetch" /\ req[r].signal \notin aborted
  /\ IF interceptors.onResponse
       THEN /\ req' = [req EXCEPT ![r].pc = "onResponse",
                             ![r].response = OkResponse,
                             ![r].onResponseCalled = TRUE]
            /\ UNCHANGED <<exLoading, exError, exResult, abortControllerRef,
                           aborted>>
       ELSE Return(r)
  /\ UNCHANGED <<apiSpec, lastGenerated, generated>>
  /\ UNCHANGED <<interceptors, baseUrl>>
  /\ UNCHANGED <<loaderVars, parseVars, searchVars, urlVars>>

\* executeRequest 321-342: a non-2xx response arrived with the given body
FetchHttpError(r, body) ==
  /\ req[r].pc = "fetch" /\ req[r].signal \notin aborted
  /\ Catch(r, Thrown(body).name, Thrown(body).message, "http",
           ErrorResponse(body))
  /\ UNCHANGED <<apiSpec, lastGenerated, generated>>
  /\ UNCHANGED <<interceptors, baseUrl, exResult>>
  /\ UNCHANGED <<loaderVars, parseVars, searchVars, urlVars>>

\* executeRequest 321: fetch rejected
FetchNetworkError(r) ==
  /\ req[r].pc = "fetch" /\ req[r].signal \notin aborted
  /\ Catch(r, "TypeError", NetworkMessage, "network", NoResponse)
  /\ UNCHANGED <<apiSpec, lastGenerated, generated>>
  /\ UNCHANGED <<interceptors, baseUrl, exResult>>
  /\ UNCHANGED <<loaderVars, parseVars, searchVars, urlVars>>

\* executeRequest 321-333: the signal is aborted; fetch (or the read of the
\* body) rejects with an AbortError
FetchAborted(r) ==
  /\ req[r].pc = "fetch" /\ req[r].signal \in aborted
  /\ Catch(r, "AbortError", AbortMessage, "abort", NoResponse)
  /\ UNCHANGED <<apiSpec, lastGenerated, generated>>
  /\ UNCHANGED <<interceptors, baseUrl, exResult>>
  /\ UNCHANGED <<loaderVars, parseVars, searchVars, urlVars>>

\* executeRequest 346-357: onResponse returned
OnResponseDone(r) ==
  /\ req[r].pc = "onResponse"
  /\ Return(r)
  /\ UNCHANGED <<apiSpec, lastGenerated, generated>>
  /\ UNCHANGED <<interceptors, baseUrl>>
  /\ UNCHANGED <<loaderVars, parseVars, searchVars, urlVars>>

\* executeRequest 367-375: onError returned; the error is thrown on
OnErrorDone(r) ==
  /\ req[r].pc = "onError"
  /\ Finally(r, "rejected", req[r].name, req[r].message, req[r].ended,
             req[r].response)
  /\ UNCHANGED <<apiSpec, lastGenerated, generated>>
  /\ UNCHANGED <<interceptors, baseUrl, exError, exResult>>
  /\ UNCHANGED <<loaderVars, parseVars, searchVars, urlVars>>

\* cancel 426-430 (with no controller in the ref it does nothing)
Cancel ==
  /\ abortControllerRef # NoController
  /\ aborted' = aborted \cup {abortControllerRef}
  /\ UNCHANGED <<apiSpec, lastGenerated, generated>>
  /\ UNCHANGED <<interceptors, baseUrl, exLoading, exError, exResult,
                 abortControllerRef, req>>
  /\ UNCHANGED <<loaderVars, parseVars, searchVars, urlVars>>

\* clearError 418-420
ClearError ==
  /\ exError' = nullError
  /\ UNCHANGED <<apiSpec, lastGenerated, generated>>
  /\ UNCHANGED <<interceptors, baseUrl, exLoading, exResult,
                 abortControllerRef, aborted, req>>
  /\ UNCHANGED <<loaderVars, parseVars, searchVars, urlVars>>

\* clearResult 422-424
ClearResult ==
  /\ exResult' = nullResult
  /\ UNCHANGED <<apiSpec, lastGenerated, generated>>
  /\ UNCHANGED <<interceptors, baseUrl, exLoading, exError,
                 abortControllerRef, aborted, req>>
  /\ UNCHANGED <<loaderVars, parseVars, searchVars, urlVars>>

ExecNext ==
  \/ \E r \in Requests : Execute(r)
  \/ \E r \in Requests, opId \in OperationIds : ExecuteById(r, opId)
  \/ \E opId \in OperationIds : Generate(opId)
  \/ ClearLast
  \/ \E r \in Requests, returned \in InterceptedRequests :
       OnRequestDone(r, returned)
  \/ \E r \in Requests : OnRequestFailed(r)
  \/ \E r \in Requests : FetchOk(r)
  \/ \E r \in Requests, body \in ErrorBodies : FetchHttpError(r, body)
  \/ \E r \in Requests : FetchNetworkError(r)
  \/ \E r \in Requests : FetchAborted(r)
  \/ \E r \in Requests : OnResponseDone(r)
  \/ \E r \in Requests : OnErrorDone(r)
  \/ Cancel
  \/ ClearError
  \/ ClearResult

SpecExec == ExecInit /\ [][ExecNext]_vars

\* ===================================================== parsing/parseOpenApi
\* ToBoolean
Truthy(v) ==
  CASE v.kind \in {"undefined", "null"} -> FALSE
    [] v.kind = "boolean" -> v.value
    [] v.kind = "string" -> v.value # ""
    [] OTHER -> TRUE

\* The members every object inherits.
ObjectPrototype == {"constructor", "toString", "valueOf", "hasOwnProperty"}

\* value[key]: an own property, else an inherited member, else undefined
Get(v, key) ==
  IF v.kind = "object" /\ key \in DOMAIN v.props THEN v.props[key]
  ELSE IF v.kind \in {"object", "array", "boolean", "string", "function"}
          /\ key \in ObjectPrototype THEN Fn(key)
  ELSE undefinedValue

\* ---- strings as sequences of characters (tokens), where the code looks
\* inside them
RECURSIVE Join(_)
Join(chars) == IF chars = <<>> THEN "" ELSE Head(chars) \o Join(Tail(chars))

\* [a-zA-Z0-9]
Alphanumerics ==
  {"a", "b", "c", "d", "e", "f", "g", "h", "i", "j", "k", "l", "m", "n", "o",
   "p", "q", "r", "s", "t", "u", "v", "w", "x", "y", "z",
   "A", "B", "C", "D", "E", "F", "G", "H", "I", "J", "K", "L", "M", "N", "O",
   "P", "Q", "R", "S", "T", "U", "V", "W", "X", "Y", "Z",
   "0", "1", "2", "3", "4", "5", "6", "7", "8", "9"}

\* path.replace(/[^a-zA-Z0-9]/g, "_")
ReplaceNonAlphanumerics(chars) ==
  [i \in DOMAIN chars |->
     IF chars[i] \in Alphanumerics THEN chars[i] ELSE "_"]

\* A method list that ends at head.
HttpMethods_NoTrace ==
  <<"get", "post", "put", "delete", "patch", "options", "head">>

\* extractEndpoints: const httpMethods = [...]
HttpMethods ==
  <<"get", "post", "put", "delete", "patch", "options", "head", "trace">>

\* method.toUpperCase()
ToUpperCase(method) ==
  CASE method = "get" -> "GET"
    [] method = "post" -> "POST"
    [] method = "put" -> "PUT"
    [] method = "delete" -> "DELETE"
    [] method = "patch" -> "PATCH"
    [] method = "options" -> "OPTIONS"
    [] method = "head" -> "HEAD"
    [] method = "trace" -> "TRACE"

\* generateEndpointId
GenerateEndpointId(method, path, operationId) ==
  IF Truthy(operationId) THEN operationId.value
  ELSE ToUpperCase(method) \o "_" \o Join(ReplaceNonAlphanumerics(path))

\* normalizeEndpoint: the properties the lookups and the grouping read.
\* The operations of the documents below declare valid responses, so the
\* normalization of parameters, request body and responses does not throw.
NormalizeEndpoint(path, method, operation) ==
  [id |-> GenerateEndpointId(method, path, Get(operation, "operationId")),
   method |-> method,
   path |-> Join(path),
   operationId |-> Get(operation, "operationId"),
   tags |-> Get(operation, "tags")]

\* extractEndpoints, inner loop: for (const method of httpMethods)
RECURSIVE EndpointsOfItem(_, _, _)
EndpointsOfItem(path, pathItem, methods) ==
  IF methods = <<>> THEN <<>>
  ELSE LET method == Head(methods)
           operation == Get(pathItem, method)
       IN (IF Truthy(operation)
             THEN <<NormalizeEndpoint(path, method, operation)>>
             ELSE <<>>)
          \o EndpointsOfItem(path, pathItem, Tail(methods))

\* extractEndpoints, outer loop: for (... of Object.entries(spec.paths))
RECURSIVE ExtractEndpoints(_)
ExtractEndpoints(entries) ==
  IF entries = <<>> THEN <<>>
  ELSE EndpointsOfItem(Head(entries).path, Head(entries).item, HttpMethods)
       \o ExtractEndpoints(Tail(entries))

\* ---- references
\* A {$ref} object; the reference string is kept as its tokens.
Ref(tokens) == Obj("$ref" :> tokens)

IsRef(item) == item.kind = "object" /\ "$ref" \in DOMAIN item.props

\* ref.replace("#/", ""): the first occurrence goes
RECURSIVE StripHash(_)
StripHash(tokens) ==
  IF Len(tokens) < 2 THEN tokens
  ELSE IF tokens[1] = "#" /\ tokens[2] = "/"
    THEN SubSeq(tokens, 3, Len(tokens))
  ELSE <<tokens[1]>> \o StripHash(Tail(tokens))

\* .split("/"), segment being the piece read so far
RECURSIVE Split(_, _)
Split(tokens, segment) ==
  IF tokens = <<>> THEN <<segment>>
  ELSE IF Head(tokens) = "/"
    THEN <<segment>> \o Split(Tail(tokens), "")
  ELSE Split(Tail(tokens), segment \o Head(tokens))

Returned(value) == [outcome |-> "returned", value |-> value]

Threw(message) == [outcome |-> "thrown", message |-> message]

UnresolvedMessage(tokens) == "Unable to resolve reference: " \o Join(tokens)

\* resolveReference: for (const segment of path) { current = current[segment];
\* if (!current) throw ... }
RECURSIVE Descend(_, _, _)
Descend(current, path, tokens) ==
  IF path = <<>> THEN Returned(current)
  ELSE LET next == Get(current, Head(path)) IN
         IF ~Truthy(next) THEN Threw(UnresolvedMessage(tokens))
         ELSE Descend(next, Tail(path), tokens)

\* resolveReference
ResolveReference(item, root) ==
  IF IsRef(item)
    THEN LET tokens == item.props["$ref"] IN
           Descend(root, Split(StripHash(tokens), ""), tokens)
    ELSE Returned(item)

\* normalizeSchema, of a schema and of the schemas below it: type, properties
\* and items stand for the properties it copies and the ones it recurses into.
RECURSIVE NormalizeSchema(_, _)
NormalizeSchema(schema, root) ==
  LET first == ResolveReference(schema, root) IN
    IF first.outcome = "thrown" THEN first
    ELSE
      LET resolved == first.value
          properties == Get(resolved, "properties")
          names == IF properties.kind = "object" THEN DOMAIN properties.props
                   ELSE {}
          below == [name \in names |->
                      NormalizeSchema(properties.props[name], root)]
          items == Get(resolved, "items")
          item == IF Truthy(items) THEN NormalizeSchema(items, root)
                  ELSE Returned(undefinedValue)
          failed == {name \in names : below[name].outcome = "thrown"}
      IN IF failed # {} THEN below[CHOOSE name \in failed : TRUE]
         ELSE IF item.outcome = "thrown" THEN item
         ELSE Returned([type |-> Get(resolved, "type"),
                        properties |-> [name \in names |-> below[name].value],
                        items |-> item.value])

\* ---- the documents
\* The root of a document as resolveReference descends it.
Root(document) ==
  Obj(("paths" :>
         Obj([p \in {Join(document.paths[i].path) :
                       i \in DOMAIN document.paths} |->
                (CHOOSE e \in {document.paths[i] : i \in DOMAIN document.paths} :
                   Join(e.path) = p).item]))
      @@ ("components" :> document.components))

\* spec.components.schemas
SchemasOf(document) == Get(document.components, "schemas").props

\* extractSchemas
ExtractSchemas(document) ==
  [name \in DOMAIN SchemasOf(document) |->
     NormalizeSchema(SchemasOf(document)[name], Root(document)).value]

\* parseOpenApi, of a specification object
ParseOpenApi(document) ==
  [ok |-> TRUE,
   endpoints |-> ExtractEndpoints(document.paths),
   schemas |-> ExtractSchemas(document)]

\* groups[key] = (groups[key] || []).push(endpoint)
Push(groups, key, endpoint) ==
  [t \in DOMAIN groups \cup {key} |->
     IF t \notin DOMAIN groups THEN <<endpoint>>
     ELSE IF t = key THEN Append(groups[t], endpoint)
     ELSE groups[t]]

\* groupEndpointsByTag, inner loop: for (const tag of endpoint.tags)
RECURSIVE PushEach(_, _, _)
PushEach(groups, tags, endpoint) ==
  IF tags = <<>> THEN groups
  ELSE PushEach(Push(groups, Head(tags), endpoint), Tail(tags), endpoint)

\* groupEndpointsByTag, outer loop, groups being the object built so far
RECURSIVE GroupInto(_, _)
GroupInto(groups, endpoints) ==
  IF endpoints = <<>> THEN groups
  ELSE LET endpoint == Head(endpoints) IN
         GroupInto(
           IF ~Truthy(endpoint.tags) \/ Len(endpoint.tags.items) = 0
             THEN Push(groups, "Untagged", endpoint)
             ELSE PushEach(groups, endpoint.tags.items, endpoint),
           Tail(endpoints))

\* groupEndpointsByTag
GroupEndpointsByTag(endpoints) == GroupInto(<<>>, endpoints)

\* ---- inputs
\* An operation object with the given properties.
Operation(props) == Obj(props)

\* The values a method key of a path item holds: operations with and
\* without operationId and tags, and null (an empty YAML mapping value).
OperationValues ==
  {nullValue,
   Operation("tags" :> Arr(<<"users", "admin">>)),
   Operation(("operationId" :> Str("GET__a_b")) @@ ("tags" :> Arr(<<>>))),
   Operation(("operationId" :> Str("listUsers"))
             @@ ("tags" :> Arr(<<"users", "users">>)))}

\* Path items: a get key, a key that is no method, and sometimes trace.
PathItems ==
  {Obj(("get" :> v) @@ ("summary" :> Str("a path"))) : v \in OperationValues}
  \cup
  {Obj(("get" :> v) @@ ("trace" :> Operation("tags" :> Arr(<<"admin">>)))) :
     v \in {nullValue, Operation("tags" :> Arr(<<"users", "admin">>))}}

\* The path templates, character by character.
PathNames ==
  {<<"/", "a", "-", "b">>, <<"/", "a", "_", "b">>, <<"/", "c">>}

PathEntries == {[path |-> p, item |-> it] : p \in PathNames, it \in PathItems}

\* Object.entries(spec.paths): up to MaxPaths entries, no key twice
PathLists ==
  UNION {{ps \in [1..n -> PathEntries] :
            \A i, j \in 1..n : i # j => ps[i].path # ps[j].path} :
         n \in 1..MaxPaths}

\* '#/components/schemas/<name>'
SchemaRef(name) == <<"#", "/", "components", "/", "schemas", "/", name>>

\* components: schemas that stand alone, and schemas with an alias (a schema
\* that is only a reference), a property referring to it and a boolean schema.
ComponentSets ==
  {Obj("schemas" :>
         Obj(("Name" :> Obj("type" :> Str("string")))
             @@ ("User" :>
                   Obj(("type" :> Str("object"))
                       @@ ("properties" :>
                             Obj("name" :> Ref(SchemaRef("Name")))))))),
   Obj("schemas" :>
         Obj(("Name" :> Obj("type" :> Str("string")))
             @@ ("Alias" :> Ref(SchemaRef("Name")))
             @@ ("Never" :> Bool(FALSE))
             @@ ("User" :>
                   Obj(("type" :> Str("object"))
                       @@ ("properties" :>
                             Obj("name" :> Ref(SchemaRef("Alias"))))))))}

Documents ==
  {[paths |-> ps, components |-> c] : ps \in PathLists, c \in ComponentSets}

\* The names references are made to: schemas, a name no document has, and
\* a name every object inherits.
RefNames == {"Name", "Alias", "User", "Never", "Missing", "constructor"}

\* The items resolveReference is given.
ReferenceItems ==
  {Ref(SchemaRef(name)) : name \in RefNames}
  \cup {Ref(<<"#", "/", "definitions", "/", "Name">>),
        Obj("type" :> Str("string"))}

\* The schema positions normalizeSchema is given: a reference to a schema
\* of the document, or a schema written inline.
SchemaPositions(document) ==
  {Ref(SchemaRef(name)) : name \in DOMAIN SchemasOf(document)}
  \cup {SchemasOf(document)[name] : name \in DOMAIN SchemasOf(document)}

ParseInit ==
  /\ profile = "parse"
  /\ loaderConstructed
  /\ ExecConstructed
  /\ doc \in Documents
  /\ parsedApi = NotParsed
  /\ result = NoResult
  /\ SearchConstructed
  /\ UrlConstructed

\* parseOpenApi(spec)
Parse ==
  /\ ~parsedApi.ok
  /\ parsedApi' = ParseOpenApi(doc)
  /\ UNCHANGED <<doc, result>>
  /\ UNCHANGED <<loaderVars, execVars, searchVars, urlVars>>

\* findEndpointById(endpoints, id)
FindById(id) ==
  /\ parsedApi.ok
  /\ result' = [op |-> "findEndpointById", arg |-> id,
                value |-> FindEndpointById(parsedApi.endpoints, id)]
  /\ UNCHANGED <<doc, parsedApi>>
  /\ UNCHANGED <<loaderVars, execVars, searchVars, urlVars>>

\* groupEndpointsByTag(endpoints)
GroupByTag ==
  /\ parsedApi.ok
  /\ result' = [op |-> "groupEndpointsByTag", arg |-> "",
                value |-> GroupEndpointsByTag(parsedApi.endpoints)]
  /\ UNCHANGED <<doc, parsedApi>>
  /\ UNCHANGED <<loaderVars, execVars, searchVars, urlVars>>

\* resolveReference(item, spec)
Resolve(item) ==
  /\ parsedApi.ok
  /\ result' = [op |-> "resolveReference", arg |-> item,
                value |-> ResolveReference(item, Root(doc))]
  /\ UNCHANGED <<doc, parsedApi>>
  /\ UNCHANGED <<loaderVars, execVars, searchVars, urlVars>>

\* normalizeSchema(schema, spec)
Normalize(schema) ==
  /\ parsedApi.ok
  /\ result' = [op |-> "normalizeSchema", arg |-> schema,
                value |-> NormalizeSchema(schema, Root(doc))]
  /\ UNCHANGED <<doc, parsedApi>>
  /\ UNCHANGED <<loaderVars, execVars, searchVars, urlVars>>

\* The ids lookups are made with: those of the endpoints, and one of none.
IdsAsked == {parsedApi.endpoints[i].id : i \in DOMAIN parsedApi.endpoints}
              \cup {"missing"}

ParseNext ==
  \/ Parse
  \/ \E id \in IdsAsked : FindById(id)
  \/ GroupByTag
  \/ \E item \in ReferenceItems : Resolve(item)
  \/ \E schema \in SchemaPositions(doc) : Normalize(schema)

SpecParse == ParseInit /\ [][ParseNext]_vars

\* ================================================================ useSearch
\* Texts are sequences of characters.  A score is kept in tenths (1 is 10,
\* 0.7 is 7), a weight in tenths (2.0 is 20), so totalScore is in
\* hundredths; the normalized score of a result is kept in units of
\* 1/42000, which every totalScore / matchedFields.length (at most seven
\* fields) is a whole number of.

\* text.toLowerCase(), over the characters the inputs are written with
ToLowerCase(text) ==
  [i \in DOMAIN text |-> IF text[i] = "U" THEN "u" ELSE text[i]]

\* normalizeText 103-108
NormalizeText(text) ==
  IF options.caseSensitive THEN text ELSE ToLowerCase(text)

\* String.prototype.includes
Includes(text, query) ==
  \E i \in 0..(Len(text) - Len(query)) :
    SubSeq(text, i + 1, i + Len(query)) = query

\* fuzzyMatch 123-134: the loop that counts the characters of the query
\* found in order in the text
RECURSIVE FuzzyScan(_, _, _, _, _)
FuzzyScan(text, query, i, queryIndex, matches) ==
  IF i < Len(text) /\ queryIndex < Len(query)
    THEN IF text[i + 1] = query[queryIndex + 1]
           THEN FuzzyScan(text, query, i + 1, queryIndex + 1, matches + 1)
           ELSE FuzzyScan(text, query, i + 1, queryIndex, matches)
    ELSE [queryIndex |-> queryIndex, matches |-> matches]

\* fuzzyMatch 137: the factor 0.7 of a fuzzy match, in tenths
FuzzyFactor == 7

\* fuzzyMatch 111-142, in tenths
FuzzyMatch(query, text) ==
  LET normalizedQuery == NormalizeText(query)
      normalizedText == NormalizeText(text)
      scan == FuzzyScan(normalizedText, normalizedQuery, 0, 0, 0)
  IN IF Includes(normalizedText, normalizedQuery) THEN 10
     ELSE IF ~options.fuzzySearch THEN 0
     ELSE IF scan.queryIndex = Len(normalizedQuery)
       THEN (scan.matches * FuzzyFactor) \div Len(normalizedQuery)
       ELSE 0

\* searchFields, in the order searchInEndpoint looks at them
SearchFields ==
  <<"summary", "description", "operationId", "path", "tags", "parameters",
    "responses">>

\* searchInEndpoint: the factor totalScore takes a field's score with
Weight(field) ==
  CASE field = "summary" -> 20
    [] field = "description" -> 15
    [] field = "operationId" -> 18
    [] field = "path" -> 17
    [] field = "tags" -> 13
    [] field = "parameters" -> 12
    [] field = "responses" -> 11

\* for (...) { if (score > 0) { ...; break } }: the first score above 0
RECURSIVE FirstScore(_)
FirstScore(scores) ==
  IF scores = <<>> THEN 0
  ELSE IF Head(scores) > 0 THEN Head(scores)
  ELSE FirstScore(Tail(scores))

\* searchInEndpoint 153-236: the score a field is matched with, 0 when it
\* is not matched (an absent text and an empty one are both falsy)
FieldScore(endpoint, query, field) ==
  CASE field = "summary" ->
         IF endpoint.summary # <<>>
           THEN FuzzyMatch(query, endpoint.summary) ELSE 0
    [] field = "description" ->
         IF endpoint.description # <<>>
           THEN FuzzyMatch(query, endpoint.description) ELSE 0
    [] field = "operationId" ->
         IF endpoint.operationId # <<>>
           THEN FuzzyMatch(query, endpoint.operationId) ELSE 0
    [] field = "path" -> FuzzyMatch(query, endpoint.path)
    [] field = "tags" ->
         IF Truthy(endpoint.tags)
           THEN FirstScore([i \in DOMAIN endpoint.tags.items |->
                              FuzzyMatch(query, endpoint.tags.items[i])])
           ELSE 0
    [] field = "parameters" ->
         FirstScore([i \in DOMAIN endpoint.parameters |->
                       LET param == endpoint.parameters[i] IN
                         FuzzyMatch(query, param.name)
                         + (IF param.description # <<>>
                              THEN FuzzyMatch(query, param.description)
                              ELSE 0)])
    [] field = "responses" ->
         FirstScore([i \in DOMAIN endpoint.responses |->
                       LET response == endpoint.responses[i] IN
                         IF response.description # <<>>
                           THEN FuzzyMatch(query, response.description)
                           ELSE 0])

\* totalScore over the matched fields, in hundredths
RECURSIVE TotalScore(_, _, _)
TotalScore(endpoint, query, fields) ==
  IF fields = <<>> THEN 0
  ELSE FieldScore(endpoint, query, Head(fields)) * Weight(Head(fields))
       + TotalScore(endpoint, query, Tail(fields))

\* Math.min(totalScore / matchedFields.length, 1), in units of 1/42000
NormalizedScore(totalScore, length) ==
  LET score == (totalScore * 420) \div length IN
    IF score < 42000 THEN score ELSE 42000

\* searchInEndpoint 145-251
SearchInEndpoint(endpoint, query) ==
  IF query = <<>> \/ Len(query) < options.minQueryLength THEN nullValue
  ELSE LET Matched(field) == FieldScore(endpoint, query, field) > 0
           matchedFields == SelectSeq(SearchFields, Matched)
       IN IF Len(matchedFields) = 0 THEN nullValue
          ELSE [endpoint |-> endpoint,
                score |-> NormalizedScore(
                            TotalScore(endpoint, query, matchedFields),
                            Len(matchedFields)),
                matchedFields |-> matchedFields]

\* Array.prototype.includes / some over a list
Has(items, item) == \E i \in DOMAIN items : items[i] = item

\* filters.methods && filters.methods.length > 0, and the like
NonEmpty(list) == Truthy(list) /\ Len(list.items) > 0

\* The filters after the method filter left out.
Passes_MethodsOnly(endpoint, fs) ==
  NonEmpty(fs.methods) => Has(fs.methods.items, endpoint.method)

\* filteredResults 257-302: the predicate of each filter that is applied
Passes(endpoint, fs) ==
  /\ NonEmpty(fs.methods) => Has(fs.methods.items, endpoint.method)
  /\ NonEmpty(fs.tags) =>
       /\ Truthy(endpoint.tags)
       /\ \E i \in DOMAIN endpoint.tags.items :
            Has(fs.tags.items, endpoint.tags.items[i])
  /\ fs.deprecated # undefinedValue =>
       Bool(endpoint.deprecated) = fs.deprecated
  /\ fs.hasParameters # undefinedValue =>
       (Len(endpoint.parameters) > 0 <=> Truthy(fs.hasParameters))
  /\ fs.hasRequestBody # undefinedValue =>
       (endpoint.requestBody <=> Truthy(fs.hasRequestBody))
  /\ NonEmpty(fs.responseStatusCodes) =>
       \E i \in DOMAIN endpoint.responses :
         Has(fs.responseStatusCodes.items, endpoint.responses[i].statusCode)

\* The text search entered whatever the length of the query.
QueryActive_IgnoresMinLength(fs) ==
  /\ fs.query # undefinedValue
  /\ fs.query.value # <<>>

\* filters.query && filters.query.length >= minQueryLength
QueryActive(fs) ==
  /\ fs.query # undefinedValue
  /\ fs.query.value # <<>>
  /\ Len(fs.query.value) >= options.minQueryLength

\* An insertion that puts an element in front of those that score as much.
InsertByScore_BeforeEquals(sorted, r) ==
  LET k == Cardinality({i \in DOMAIN sorted : sorted[i].score > r.score})
  IN SubSeq(sorted, 1, k) \o <<r>> \o SubSeq(sorted, k + 1, Len(sorted))

\* Array.prototype.sort with (a, b) => b.score - a.score, one insertion:
\* the sort is stable, an element goes behind those that score as much
InsertByScore(sorted, r) ==
  LET k == Cardinality({i \in DOMAIN sorted : sorted[i].score >= r.score})
  IN SubSeq(sorted, 1, k) \o <<r>> \o SubSeq(sorted, k + 1, Len(sorted))

\* .sort((a, b) => b.score - a.score)
RECURSIVE SortByScore(_)
SortByScore(rs) ==
  IF rs = <<>> THEN <<>>
  ELSE InsertByScore(SortByScore(SubSeq(rs, 1, Len(rs) - 1)), rs[Len(rs)])

\* results.map(searchInEndpoint).filter(result => result !== null)
RECURSIVE SearchResults(_, _)
SearchResults(endpoints, query) ==
  IF endpoints = <<>> THEN <<>>
  ELSE LET found == SearchInEndpoint(Head(endpoints), query) IN
         (IF found = nullValue THEN <<>> ELSE <<found>>)
         \o SearchResults(Tail(endpoints), query)

\* filteredResults 254-326, of the filters fs
FilteredResults(fs) ==
  LET Passing(endpoint) == Passes(endpoint, fs)
      kept == SelectSeq(allEndpoints, Passing)
  IN IF QueryActive(fs)
       THEN SortByScore(SearchResults(kept, fs.query.value))
       ELSE [i \in DOMAIN kept |->
               [endpoint |-> kept[i], score |-> 42000,
                matchedFields |-> <<>>]]

\* ---- inputs
\* A normalized endpoint as useSearch reads it; the texts are character
\* sequences, an absent text being the empty one.
SearchEndpoint(method, path, summary, tags, parameters, requestBody, responses, deprecated) ==
  [method |-> method, path |-> path, summary |-> summary,
   description |-> <<>>, operationId |-> <<>>, tags |-> tags,
   parameters |-> parameters, requestBody |-> requestBody,
   responses |-> responses, deprecated |-> deprecated]

\* { name, description } and { statusCode, description }
Param(name) == [name |-> name, description |-> <<>>]

Response(statusCode, description) ==
  [statusCode |-> statusCode, description |-> description]

\* The endpoints of the context: one tagged 'us' whose parameter and
\* response only resemble 'us', one whose response says 'us', one with
\* 'Us' as summary and 'us' in its path, one whose parameter resembles it.
SearchEndpoints ==
  {SearchEndpoint("get", <<"/", "x">>, <<>>, Arr(<< <<"u", "s">> >>),
                  << Param(<<"u", "-", "s">>) >>, FALSE,
                  << Response("200", <<"u", "-", "s">>) >>, FALSE),
   SearchEndpoint("post", <<"/", "y">>, <<>>, undefinedValue,
                  <<>>, TRUE,
                  << Response("404", <<"u", "s">>) >>, TRUE),
   SearchEndpoint("get", <<"/", "u", "s">>, <<"U", "s">>,
                  Arr(<< <<"x">> >>),
                  <<>>, FALSE,
                  << Response("200", <<>>) >>, FALSE),
   SearchEndpoint("post", <<"/", "y", "y">>, <<>>, Arr(<<>>),
                  << Param(<<"u", "-", "s">>) >>, FALSE,
                  << Response("404", <<>>) >>, FALSE)}

\* useEndpoints(): up to MaxEndpoints endpoints, none twice
EndpointLists ==
  UNION {{es \in [1..n -> SearchEndpoints] :
            \A i, j \in 1..n : i # j => es[i] # es[j]} :
         n \in 1..MaxEndpoints}

\* useSearch(options)
OptionSets ==
  {DefaultOptions,
   [DefaultOptions EXCEPT !.fuzzySearch = TRUE],
   [DefaultOptions EXCEPT !.minQueryLength = 2],
   [DefaultOptions EXCEPT !.caseSensitive = TRUE]}

\* keyof SearchFilters
FilterKeys ==
  {"query", "methods", "tags", "deprecated", "hasParameters",
   "hasRequestBody", "responseStatusCodes"}

\* The values updateFilter gives a key.
FilterValues(key) ==
  {undefinedValue} \cup
  CASE key = "query" -> {Str(<<>>), Str(<<"u">>), Str(<<"u", "s">>)}
    [] key = "methods" -> {Arr(<<>>), Arr(<<"get">>)}
    [] key = "tags" -> {Arr(<< <<"u", "s">> >>)}
    [] key = "deprecated" -> {Bool(TRUE), Bool(FALSE)}
    [] key = "hasParameters" -> {Bool(TRUE)}
    [] key = "hasRequestBody" -> {Bool(FALSE)}
    [] key = "responseStatusCodes" -> {Arr(<<"404">>)}

\* The filters setFilters is called with.
FilterSets ==
  {NoFilters,
   [NoFilters EXCEPT !.methods = Arr(<<"get">>),
                     !.deprecated = Bool(FALSE)]}

SearchInit ==
  /\ profile = "search"
  /\ loaderConstructed
  /\ ExecConstructed
  /\ ParseConstructed
  /\ UrlConstructed
  /\ allEndpoints \in EndpointLists
  /\ options \in OptionSets
  /\ filters = NoFilters
  /\ results = [i \in DOMAIN allEndpoints |->
                  [endpoint |-> allEndpoints[i], score |-> 42000,
                   matchedFields |-> <<>>]]

\* A render after the filters changed: filteredResults is computed anew.
Rendered(fs) ==
  /\ profile = "search"
  /\ filters' = fs
  /\ results' = FilteredResults(fs)
  /\ UNCHANGED <<allEndpoints, options>>
  /\ UNCHANGED <<loaderVars, execVars, parseVars, urlVars>>

\* setFilters(filters)
SetFilters(fs) == Rendered(fs)

\* updateFilter(key, value) 354-360
UpdateFilter(key, value) == Rendered([filters EXCEPT ![key] = value])

\* clearFilters 362-364
ClearFilters == Rendered(NoFilters)

\* setQuery(query) 367-372
SetQuery(query) == UpdateFilter("query", query)

SearchNext ==
  \/ \E fs \in FilterSets : SetFilters(fs)
  \/ \E key \in FilterKeys \ {"query"} :
       \E value \in FilterValues(key) : UpdateFilter(key, value)
  \/ ClearFilters
  \/ \E query \in FilterValues("query") \ {undefinedValue} : SetQuery(query)

SpecSearch == SearchInit /\ [][SearchNext]_vars

\* ================================================================= buildUrl
\* A path template is a sequence of characters and placeholders ('{id}' is
\* one element); a URL string is the sequence of what it is written with.

\* String(value) of a query value: a string, an array of strings (joined
\* with commas), null or undefined
StringOf(value) ==
  CASE value.kind = "string" -> value.value
    [] value.kind = "array" ->
         IF value.items = <<>> THEN <<>>
         ELSE LET RECURSIVE Joined(_)
                  Joined(items) ==
                    IF Len(items) = 1 THEN items[1]
                    ELSE items[1] \o <<",">> \o Joined(Tail(items))
              IN Joined(value.items)
    [] value.kind = "null" -> <<"null">>
    [] value.kind = "undefined" -> <<"undefined">>

\* encodeURIComponent, over the characters the inputs are written with
EncodeURIComponent(text) ==
  [i \in DOMAIN text |->
     CASE text[i] = " " -> "%20"
       [] text[i] = "/" -> "%2F"
       [] text[i] = "," -> "%2C"
       [] OTHER -> text[i]]

\* path.replace(`{${key}}`, value): the first occurrence only
Replace(path, key, value) ==
  LET hits == {i \in DOMAIN path : path[i] = "{" \o key \o "}"} IN
    IF hits = {} THEN path
    ELSE LET first == CHOOSE i \in hits : \A j \in hits : i <= j IN
           SubSeq(path, 1, first - 1) \o value
           \o SubSeq(path, first + 1, Len(path))

\* new URL(path, baseUrl), the path: the URL parser percent-encodes a
\* space and the braces of a placeholder left in place
ParsePath(path) ==
  [i \in DOMAIN path |->
     CASE path[i] = " " -> "%20"
       [] path[i] = "{id}" -> "%7Bid%7D"
       [] OTHER -> path[i]]

\* url.searchParams.append(key, value)
AppendParam(query, key, value) ==
  Append(query, [key |-> key, value |-> value])

\* url.searchParams.set(key, value): the first pair of the key takes the
\* value and the others go; without one the pair is appended
SetParam(query, key, value) ==
  LET hits == {i \in DOMAIN query : query[i].key = key} IN
    IF hits = {} THEN AppendParam(query, key, value)
    ELSE LET first == CHOOSE i \in hits : \A j \in hits : i <= j
             Keep(i) == i = first \/ i \notin hits
             kept == SelectSeq([i \in DOMAIN query |->
                                  [at |-> i, pair |-> query[i]]],
                               LAMBDA e : Keep(e.at))
         IN [i \in DOMAIN kept |->
               IF kept[i].at = first THEN [key |-> key, value |-> value]
               ELSE kept[i].pair]

\* the application/x-www-form-urlencoded serializer of searchParams
FormEncode(text) ==
  [i \in DOMAIN text |->
     CASE text[i] = " " -> "+"
       [] text[i] = "/" -> "%2F"
       [] text[i] = "," -> "%2C"
       [] OTHER -> text[i]]

\* key=value&key=value
RECURSIVE SerializeQuery(_)
SerializeQuery(query) ==
  IF query = <<>> THEN <<>>
  ELSE <<query[1].key, "=">> \o FormEncode(query[1].value)
       \o (IF Len(query) = 1 THEN <<>>
           ELSE <<"&">> \o SerializeQuery(Tail(query)))

\* url.toString()
UrlToString(base, path, query) ==
  <<base>> \o path \o (IF query = <<>> THEN <<>>
                        ELSE <<"?">> \o SerializeQuery(query))

\* useExecuteOperation buildUrl 163-168: the path parameters
RECURSIVE ExecutePath(_, _)
ExecutePath(path, pathParams) ==
  IF pathParams = <<>> THEN path
  ELSE ExecutePath(Replace(path, pathParams[1].key,
                           EncodeURIComponent(pathParams[1].value)),
                   Tail(pathParams))

\* useExecuteOperation buildUrl 174-182: the query parameters
RECURSIVE ExecuteQuery(_, _)
ExecuteQuery(query, queryParams) ==
  IF queryParams = <<>> THEN query
  ELSE LET key == queryParams[1].key
           value == queryParams[1].value
           RECURSIVE AppendEach(_, _)
           AppendEach(q, items) ==
             IF items = <<>> THEN q
             ELSE AppendEach(AppendParam(q, key, items[1]), Tail(items))
       IN ExecuteQuery(
            IF value.kind = "array" THEN AppendEach(query, value.items)
            ELSE SetParam(query, key, StringOf(value)),
            Tail(queryParams))

\* useExecuteOperation buildUrl 146-187
ExecuteBuildUrl(args) ==
  UrlToString(args.baseUrl,
              ParsePath(ExecutePath(args.path, args.pathParams)),
              ExecuteQuery(<<>>, args.queryParams))

\* useCodeSnippet buildUrl 89-98: the path parameters
RECURSIVE SnippetPath(_, _)
SnippetPath(path, pathParams) ==
  IF pathParams = <<>> THEN path
  ELSE SnippetPath(Replace(path, pathParams[1].key, pathParams[1].value),
                   Tail(pathParams))

\* useCodeSnippet buildUrl 102-111: the query parameters
RECURSIVE SnippetQuery(_, _)
SnippetQuery(query, queryParams) ==
  IF queryParams = <<>> THEN query
  ELSE LET key == queryParams[1].key
           value == queryParams[1].value
       IN SnippetQuery(
            IF value.kind \notin {"undefined", "null"}
              THEN SetParam(query, key, StringOf(value))
              ELSE query,
            Tail(queryParams))

\* useCodeSnippet buildUrl 86-115
SnippetBuildUrl(args) ==
  UrlToString(args.baseUrl,
              ParsePath(SnippetPath(args.path, args.pathParams)),
              SnippetQuery(<<>>, args.queryParams))

\* ---- inputs
\* endpoint.path
UrlPaths == {<<"/", "u">>, <<"/", "u", "/", "{id}">>}

\* params.pathParams
PathParamSets ==
  {<<>>} \cup
  {<<[key |-> "id", value |-> v]>> :
     v \in {<<"a">>, <<"a", " ", "b">>, <<"a", "/", "b">>}}

\* params.queryParams
QueryParamSets ==
  {<<>>,
   <<[key |-> "q", value |-> Str(<<"x">>)]>>,
   <<[key |-> "q", value |-> Str(<<"x", " ", "y">>)]>>,
   <<[key |-> "ids", value |-> Arr(<< <<"x">>, <<"y">> >>)]>>,
   <<[key |-> "q", value |-> nullValue]>>,
   <<[key |-> "q", value |-> undefinedValue]>>,
   <<[key |-> "q", value |-> Str(<<"x">>)],
     [key |-> "ids", value |-> Arr(<< <<"x">> >>)]>>}

UrlArgSets ==
  {[baseUrl |-> "https://api", path |-> p, pathParams |-> pp,
    queryParams |-> qp] :
     p \in UrlPaths, pp \in PathParamSets, qp \in QueryParamSets}

UrlInit ==
  /\ profile = "url"
  /\ loaderConstructed
  /\ ExecConstructed
  /\ ParseConstructed
  /\ SearchConstructed
  /\ urlArgs \in UrlArgSets
  /\ built = NotBuilt

\* buildUrl(endpoint, params) of useExecuteOperation
BuildForExecute ==
  /\ profile = "url"
  /\ built.execute = <<>>
  /\ built' = [built EXCEPT !.execute = ExecuteBuildUrl(urlArgs)]
  /\ UNCHANGED urlArgs
  /\ UNCHANGED <<loaderVars, execVars, parseVars, searchVars>>

\* buildUrl(endpoint, options) of useCodeSnippet
BuildForSnippet ==
  /\ profile = "url"
  /\ built.snippet = <<>>
  /\ built' = [built EXCEPT !.snippet = SnippetBuildUrl(urlArgs)]
  /\ UNCHANGED urlArgs
  /\ UNCHANGED <<loaderVars, execVars, parseVars, searchVars>>

UrlNext == BuildForExecute \/ BuildForSnippet

SpecUrl == UrlInit /\ [][UrlNext]_vars

\* ====================================================== claims: useApiLoader
\* the retries a call is configured with: its own, else the hook's
ConfiguredRetries(c) == Default(call[c].retries, retries)

\* C1: a URL load configured with retries = r whose transport fails on the
\* first k <= r attempts and then succeeds ends, at that (k+1)-th invocation
\* of the transport, with spec populated from that url and loading false,
\* and with error null when no other call overlapped it; a load that ends
\* in error instead has seen more than r failed attempts.
Thm_C1_RetryThenSucceed ==
  [][\A c \in Calls :
       (call[c].pc = "fetching" /\ call'[c].pc = "done") =>
         IF call'[c].outcome = "ok"
           THEN /\ spec' # nullSpec
                /\ spec'.src = call[c].url
                /\ loading' = FALSE
                /\ (call[c].alone => error' = nullError)
                /\ call'[c].fetches = call[c].attempt + 1
           ELSE call'[c].fetches > ConfiguredRetries(c)]_vars

Wit_C1_TwoFailuresThenSuccess ==
  \E c \in Calls :
    /\ call[c].pc = "done" /\ call[c].outcome = "ok" /\ call[c].alone
    /\ call[c].retries = 2 /\ call[c].attempt = 2 /\ call[c].fetches = 3
    /\ spec = ParsedSpec(call[c].url, "v1")
    /\ error = nullError /\ loading = FALSE

\* C2: a URL load configured with retries = r (any r >= 0) in which every
\* attempt fails has invoked the transport exactly r+1 times when it ends,
\* and its error is the message of a failure.
Orig_C2_ExactlyRPlusOne ==
  \A c \in Calls :
    (call[c].pc = "done" /\ call[c].outcome = "error" /\ call[c].url # "") =>
      /\ call[c].fetches = ConfiguredRetries(c) + 1
      /\ call[c].lastError \in {MessageOf(f) : f \in Failures}

\* C3 as stated: while a loadSpec call that was given neither url nor spec
\* runs (nothing else in flight), loading is not true.
Orig_C3_NeverLoading ==
  \A c \in Calls :
    (call[c].pc = "started" /\ call[c].alone
       /\ call[c].config.url = "" /\ call[c].config.spec = "") =>
      loading = FALSE

\* C3 amended: a loadSpec call given neither url nor spec sets loading true
\* and error null on entry like every call, and its next synchronous step
\* ends it with the error 'Either url or spec must be provided', spec null
\* and loading false, the transport not invoked and the cache untouched.
Thm_C3_MissingSource ==
  [][\A c \in Calls :
       /\ (call'[c].pc = "started" /\ call[c].pc # "started") =>
            (loading' = TRUE /\ error' = nullError)
       /\ (call[c].pc = "started" /\ call[c].config.url = ""
             /\ call[c].config.spec = "" /\ call'[c] # call[c]) =>
            /\ error' = MissingSourceMessage
            /\ spec' = nullSpec
            /\ loading' = FALSE
            /\ call'[c].pc = "done"
            /\ call'[c].fetches = 0
            /\ specCache' = specCache
            /\ currentUrl' = currentUrl]_vars

Wit_C3_MissingSource ==
  \E c \in Calls :
    /\ call[c].pc = "done" /\ call[c].lastError = MissingSourceMessage
    /\ error = MissingSourceMessage /\ spec = nullSpec /\ loading = FALSE

\* C8: a loadSpec call for url u that does not override the hook's
\* cacheDuration returns the cached spec without invoking the transport when
\* the cache holds an entry for u with now - timestamp < cacheDuration, and
\* invokes the transport when the entry is missing or that old or older.
Thm_C8_CacheValidity ==
  [][\A c \in Calls :
       /\ (/\ call[c].pc = "started" /\ call'[c].pc # "started"
           /\ call[c].config.url # ""
           /\ call[c].config.cacheDuration \in {undefined, cacheDuration}) =>
            LET u == call[c].config.url IN
              IF /\ u \in DOMAIN specCache
                 /\ now - specCache[u].timestamp < cacheDuration
                THEN /\ call'[c].pc = "hit"
                     /\ call'[c].value = specCache[u].spec
                     /\ call'[c].fetches = 0
                ELSE /\ call'[c].pc = "fetching"
                     /\ call'[c].fetches = 1
       /\ (call[c].pc = "hit" /\ call'[c].pc # "hit") =>
            /\ call'[c].pc = "done"
            /\ spec' = call[c].value
            /\ call'[c].fetches = 0]_vars

Wit_C8_ServedFromCache ==
  \E c \in Calls :
    /\ call[c].pc = "done" /\ call[c].outcome = "hit"
    /\ call[c].fetches = 0 /\ call[c].via = "loadSpec"
    /\ call[c].url \in DOMAIN specCache
    /\ spec = specCache[call[c].url].spec

\* C9: reload() on a hook whose current url is u deletes u's cache entry
\* before it loads: the load it starts is never served from the cache and
\* invokes the transport at least once.
Thm_C9_ReloadRefetches ==
  \A c \in Calls :
    call[c].via = "reload" =>
      IF call[c].pc = "started"
        THEN call[c].config.url \notin DOMAIN specCache
        ELSE /\ call[c].fetches >= 1
             /\ call[c].pc # "hit"
             /\ call[c].outcome # "hit"

Wit_C9_ReloadOverFreshEntry ==
  \E c \in Calls :
    /\ call[c].via = "reload" /\ call[c].fresh
    /\ call[c].pc = "done" /\ call[c].outcome = "ok" /\ call[c].fetches = 1

\* C10: two loadSpec calls for the same url that overlap and both miss the
\* cache each invoke the transport themselves; when both succeed on their
\* first attempt the transport has been invoked exactly twice.
Thm_C10_NoCoalescing ==
  \A c, d \in Calls :
    (/\ c # d
     /\ call[c].url # "" /\ call[c].url = call[d].url
     /\ ~call[c].alone /\ ~call[d].alone
     /\ call[c].pc \in {"fetching", "sleeping", "done"}
     /\ call[d].pc \in {"fetching", "sleeping", "done"}
     /\ call[c].outcome # "hit" /\ call[d].outcome # "hit") =>
      /\ call[c].fetches >= 1 /\ call[d].fetches >= 1
      /\ (/\ call[c].outcome = "ok" /\ call[c].attempt = 0
          /\ call[d].outcome = "ok" /\ call[d].attempt = 0) =>
           call[c].fetches + call[d].fetches = 2

Wit_C10_BothFetched ==
  \E c, d \in Calls :
    /\ c # d /\ call[c].url = "u1" /\ call[d].url = "u1"
    /\ ~call[c].alone /\ ~call[d].alone
    /\ call[c].pc = "done" /\ call[c].outcome = "ok" /\ call[c].fetches = 1
    /\ call[d].pc = "done" /\ call[d].outcome = "ok" /\ call[d].fetches = 1

\* The cache without the entry of url.
Without(url) == [u \in DOMAIN specCache \ {url} |-> specCache[u]]

\* The cache with the entry of url written at the current time.
With(url, parsed) ==
  [u \in DOMAIN specCache \cup {url} |->
     IF u = url THEN [spec |-> parsed, timestamp |-> now] ELSE specCache[u]]

\* C11: the cache changes in three ways only.  The step in which a url load
\* succeeds writes {spec, timestamp: now} under its url; the step in which
\* reload starts deletes the entry of the current url; clearSpecCache
\* empties the cache.  Every other step (a failed attempt, a cache hit, an
\* inline load, the clock passing an entry's duration) leaves every entry
\* as it was.
Thm_C11_CacheFrame ==
  [][\/ \E c \in Calls :
          /\ call[c].pc = "fetching" /\ call'[c].outcome = "ok"
          /\ specCache' = With(call[c].url, spec')
          /\ spec' = specCache'[call[c].url].spec
     \/ \E c \in Calls :
          /\ call[c].pc # "started" /\ call'[c].pc = "started"
          /\ call'[c].via = "reload"
          /\ specCache' = Without(renderedUrl)
     \/ /\ specCache' = <<>>
        /\ UNCHANGED <<spec, loading, error, currentUrl, now, call, microq>>
     \/ /\ specCache' = specCache
        /\ \A c \in Calls :
             ~(call[c].pc = "fetching" /\ call'[c].outcome = "ok")
        /\ \A c \in Calls :
             ~(call[c].pc # "started" /\ call'[c].pc = "started"
                 /\ call'[c].via = "reload")]_vars

\* An entry whose duration has passed is still in the cache after a load of
\* its url failed.
Wit_C11_StaleEntryKept ==
  \E c \in Calls :
    /\ call[c].pc = "done" /\ call[c].outcome = "error"
    /\ call[c].url \in DOMAIN specCache
    /\ now - specCache[call[c].url].timestamp >= cacheDuration

\* C12: a loadSpec call given an inline spec and no url ends in the step
\* that enters it: it leaves the cache as it was, is not served from the
\* cache, invokes the transport zero times, makes no retry and runs the
\* parser exactly once, ending with the parsed spec or the parse error.
Thm_C12_InlineBypass ==
  [][\A c \in Calls :
       (/\ call[c].pc = "started" /\ call'[c].pc # "started"
        /\ call[c].config.url = "" /\ call[c].config.spec # "") =>
         /\ specCache' = specCache
         /\ microq' = microq
         /\ call'[c].pc = "done"
         /\ call'[c].fetches = 0
         /\ call'[c].attempt = 0
         /\ call'[c].parses = 1
         /\ \/ /\ call'[c].outcome = "ok"
               /\ spec' = ParsedSpec("inline", "v1")
            \/ /\ call'[c].outcome = "error"
               /\ error' = MessageOf("parse")]_vars

\* An inline load ended while the cache held an entry.
Wit_C12_InlineWithCache ==
  \E c \in Calls :
    /\ call[c].pc = "done" /\ call[c].outcome = "ok"
    /\ call[c].url = "" /\ call[c].parses = 1 /\ call[c].fetches = 0
    /\ spec = ParsedSpec("inline", "v1")
    /\ specCache # <<>>

\* ================================================= claims: parseOpenApi
\* C16 as stated: findEndpointById given the id of an endpoint of the parsed
\* spec (its operationId, or the slug derived from method and path) returns
\* that very endpoint, for every endpoint that has the id.
Orig_C16_FindByIdReturnsEndpoint ==
  result.op = "findEndpointById" =>
    \A i \in DOMAIN parsedApi.endpoints :
      parsedApi.endpoints[i].id = result.arg =>
        result.value = {parsedApi.endpoints[i]}

\* The eight keys of a path item that name an HTTP method.
EightMethods ==
  {"get", "post", "put", "delete", "patch", "options", "head", "trace"}

\* The method keys of the path items whose value is not undefined ...
RECURSIVE DefinedMethodKeys(_)
DefinedMethodKeys(entries) ==
  IF entries = <<>> THEN 0
  ELSE Cardinality({m \in EightMethods :
                      Get(Head(entries).item, m) # undefinedValue})
       + DefinedMethodKeys(Tail(entries))

\* ... and those whose value is an operation (any truthy value).
RECURSIVE OperationKeys(_)
OperationKeys(entries) ==
  IF entries = <<>> THEN 0
  ELSE Cardinality({m \in EightMethods : Truthy(Get(Head(entries).item, m))})
       + OperationKeys(Tail(entries))

\* C17 as stated: parseOpenApi produces as many endpoints as the path items
\* have method keys, among the eight, whose value is not undefined.
Orig_C17_CountsDefinedKeys ==
  parsedApi.ok => Len(parsedApi.endpoints) = DefinedMethodKeys(doc.paths)

\* C17 amended: parseOpenApi produces as many endpoints as the path items
\* have method keys, among the eight, whose value is an operation object; a
\* key that holds null (or another falsy value) yields no endpoint, and a
\* key that names no method never does.
Thm_C17_CountsOperations ==
  parsedApi.ok => Len(parsedApi.endpoints) = OperationKeys(doc.paths)

\* A document with a null method key, a trace operation and a key that is
\* no method was parsed into fewer endpoints than it has method keys.
Wit_C17_NullKeySkipped ==
  /\ parsedApi.ok
  /\ \E i \in DOMAIN doc.paths :
       /\ Get(doc.paths[i].item, "get") = nullValue
       /\ Truthy(Get(doc.paths[i].item, "trace"))
  /\ \E i \in DOMAIN doc.paths : Truthy(Get(doc.paths[i].item, "summary"))
  /\ Len(parsedApi.endpoints) = 2
  /\ DefinedMethodKeys(doc.paths) = 3

\* C18 as stated: in the groups groupEndpointsByTag returns, an endpoint
\* with N >= 1 tags is in exactly N buckets, once in the bucket of each of
\* its tags, and an endpoint without tags (undefined or empty) is once in
\* the bucket 'Untagged' and in no other.
Orig_C18_OncePerTag ==
  result.op = "groupEndpointsByTag" =>
    \A i \in DOMAIN parsedApi.endpoints :
      LET endpoint == parsedApi.endpoints[i]
          groups == result.value
          Times(t) == Cardinality({k \in DOMAIN groups[t] :
                                     groups[t][k] = endpoint})
          buckets == {t \in DOMAIN groups : Times(t) > 0}
      IN IF Truthy(endpoint.tags) /\ Len(endpoint.tags.items) >= 1
           THEN /\ Cardinality(buckets) = Len(endpoint.tags.items)
                /\ \A j \in DOMAIN endpoint.tags.items :
                     Times(endpoint.tags.items[j]) = 1
           ELSE /\ buckets = {"Untagged"}
                /\ Times("Untagged") = 1

\* C19 as stated: normalizing a schema position that holds a reference to
\* a schema of the components gives what normalizing the content of that
\* schema, written at the position, gives.
Orig_C19_ReferenceTransparency ==
  result.op = "normalizeSchema" =>
    \A name \in DOMAIN SchemasOf(doc) :
      result.arg = Ref(SchemaRef(name)) =>
        /\ result.value.outcome = "returned"
        /\ result.value = NormalizeSchema(SchemasOf(doc)[name], Root(doc))

\* Every segment of the pointer names an own property on the way down.
RECURSIVE Exists(_, _)
Exists(node, pointer) ==
  \/ pointer = <<>>
  \/ /\ node.kind = "object"
     /\ Head(pointer) \in DOMAIN node.props
     /\ Exists(node.props[Head(pointer)], Tail(pointer))

\* The node a pointer whose segments all exist leads to.
RECURSIVE NodeAt(_, _)
NodeAt(node, pointer) ==
  IF pointer = <<>> THEN node
  ELSE NodeAt(node.props[Head(pointer)], Tail(pointer))

\* C20 as stated: resolveReference given a {$ref} object throws, with a
\* message that contains the reference string, exactly when some segment of
\* the pointer is absent from the document, and returns the node at the
\* pointer when every segment exists.
Orig_C20_ThrowsIffAbsent ==
  (result.op = "resolveReference" /\ IsRef(result.arg)) =>
    LET tokens == result.arg.props["$ref"]
        pointer == Split(StripHash(tokens), "")
    IN IF Exists(Root(doc), pointer)
         THEN result.value = Returned(NodeAt(Root(doc), pointer))
         ELSE result.value =
                Threw("Unable to resolve reference: " \o Join(tokens))

\* ================================================ claims: useExecuteOperation
\* C4: every pending execute call holds the signal of a controller of its
\* own (no two pending calls share one), and a step that starts a call
\* leaves the signal of every call already pending as it was: not aborted
\* stays not aborted.
Thm_C4_OwnController ==
  [][/\ \A r \in Requests :
          Pending(r) =>
            /\ req[r].signal # NoController
            /\ \A q \in Requests \ {r} :
                 Pending(q) => req[q].signal # req[r].signal
     /\ \A r, q \in Requests :
          (/\ r # q
           /\ ~Pending(r) /\ req'[r].pc \in {"onRequest", "fetch", "onError"}
           /\ Pending(q)) =>
            /\ req'[q] = req[q]
            /\ (req[q].signal \in aborted' <=> req[q].signal \in aborted)
            /\ abortControllerRef' = req'[r].signal
            /\ abortControllerRef' # req[q].signal]_vars

Wit_C4_TwoPending ==
  /\ req[1].pc = "fetch" /\ req[2].pc = "fetch"
  /\ req[1].signal # req[2].signal
  /\ req[1].signal \notin aborted /\ req[2].signal \notin aborted
  /\ abortControllerRef = req[2].signal

\* C5: whenever some execute call is pending, cancel() has a controller to
\* abort and it is the controller of a pending call.
Orig_C5_CancelReachesPending ==
  (\E r \in Requests : Pending(r)) =>
    /\ abortControllerRef # NoController
    /\ \E r \in Requests : Pending(r) /\ req[r].signal = abortControllerRef

\* C6: a pending execute call that ends with an AbortError leaves the
\* hook's error state as it was and has not invoked interceptors.onError.
Thm_C6_AbortLeavesNoError ==
  [][\A r \in Requests :
       (Pending(r) /\ req'[r].pc = "done" /\ req'[r].ended = "abort") =>
         /\ exError' = exError
         /\ req'[r].onErrorCalled = FALSE
         /\ req'[r].name = "AbortError"]_vars

Wit_C6_AbortedWithOnError ==
  \E r \in Requests :
    /\ req[r].pc = "done" /\ req[r].ended = "abort"
    /\ interceptors.onError /\ ~req[r].onErrorCalled
    /\ exError = nullError

\* C7 as stated: an aborted execute call surfaces no error to its caller,
\* while network and non-2xx failures are thrown to the caller.
Orig_C7_AbortSwallowed ==
  \A r \in Requests :
    req[r].pc = "done" =>
      /\ req[r].ended = "abort" => req[r].settled # "rejected"
      /\ req[r].ended \in {"http", "network"} => req[r].settled = "rejected"

\* C7 amended: an aborted execute call rejects with the AbortError, just as
\* a network or non-2xx failure rejects with its error; only the error
\* state and onError are spared (C6).
Thm_C7_AbortRejects ==
  \A r \in Requests :
    req[r].pc = "done" =>
      /\ req[r].ended = "abort" =>
           (req[r].settled = "rejected" /\ req[r].name = "AbortError")
      /\ req[r].ended = "http" =>
           (/\ req[r].settled = "rejected"
            /\ req[r].message = Thrown(req[r].response.body).message)
      /\ req[r].ended = "network" =>
           (req[r].settled = "rejected" /\ req[r].message = NetworkMessage)
      /\ req[r].ended = "ok" => req[r].settled = "resolved"

Wit_C7_AbortRejected ==
  \E r \in Requests :
    /\ req[r].pc = "done" /\ req[r].ended = "abort"
    /\ req[r].settled = "rejected" /\ req[r].name = "AbortError"

\* C13 as stated: the step in which a non-2xx response arrives throws an
\* Error whose message is the message field of the body when the body has
\* one and "HTTP {status}: {statusText}" otherwise; the hook's error state
\* becomes that message and result stays as it was; the promise of the call
\* is rejected.
Orig_C13_HttpErrorMessage ==
  [][\A r \in Requests :
       (req[r].pc = "fetch" /\ req'[r].ended = "http") =>
         /\ req'[r].name = "Error"
         /\ req'[r].message =
              IF req'[r].response.body = "message" THEN BodyMessage
              ELSE HttpMessage
         /\ exError' = req'[r].message
         /\ exResult' = exResult
         /\ req'[r].pc = "done" => req'[r].settled = "rejected"]_vars

\* C14: while interceptors.onRequest runs, fetch has not been called; fetch
\* is called with the url and init onRequest returned (with the ones built
\* when there is no onRequest); interceptors.onResponse has been invoked
\* only for a request whose response passed the status check, so never for
\* one that ended with a non-2xx status, a failure or an abort, and it is
\* invoked for every request that ends well.
Thm_C14_PipelineOrder ==
  \A r \in Requests :
    /\ req[r].pc = "onRequest" => req[r].sent = NotSent
    /\ req[r].sent # NotSent =>
         IF interceptors.onRequest
           THEN req[r].sent = req[r].returned
           ELSE req[r].sent = BuiltRequest
    /\ req[r].onResponseCalled =>
         /\ req[r].response = OkResponse
         /\ req[r].sent # NotSent
         /\ req[r].ended \in {"none", "ok"}
    /\ req[r].ended \in {"http", "network", "abort", "interceptor", "nobase"}
         => ~req[r].onResponseCalled
    /\ (req[r].ended = "ok" /\ interceptors.onResponse)
         => req[r].onResponseCalled

\* A request that onRequest rewrote ended with a non-2xx status under a
\* configured onResponse, which was not invoked.
Wit_C14_RewrittenThenHttpError ==
  \E r \in Requests :
    /\ interceptors.onRequest /\ interceptors.onResponse
    /\ req[r].pc = "done" /\ req[r].ended = "http"
    /\ req[r].sent # BuiltRequest /\ req[r].sent = req[r].returned
    /\ ~req[r].onResponseCalled

\* No endpoint of the loaded spec has the ID, as id or as operationId.
Unknown(operationId) ==
  \A i \in DOMAIN apiSpec.endpoints :
    /\ apiSpec.endpoints[i].id # operationId
    /\ apiSpec.endpoints[i].operationId # operationId

\* C15: with a spec loaded, executeById given an ID that matches no endpoint
\* is rejected in the step that calls it, with the message
\* 'Operation with ID "<id>" not found': no endpoint is executed, fetch is
\* not called, the hook's state and every other request stay as they were,
\* and nothing of the call is left pending to run again.  generate given
\* such an ID throws the same message and leaves lastGenerated as it was.
Thm_C15_UnknownOperation ==
  [][/\ \A r \in Requests :
          (/\ apiSpec.loaded
           /\ ~Pending(r) /\ req'[r] # req[r]
           /\ req'[r].op # "" /\ Unknown(req'[r].op)) =>
            /\ req'[r].pc = "done" /\ req'[r].settled = "rejected"
            /\ req'[r].message =
                 "Operation with ID \"" \o req'[r].op \o "\" not found"
            /\ req'[r].endpoint = "" /\ req'[r].sent = NotSent
            /\ \A q \in Requests \ {r} : req'[q] = req[q]
            /\ UNCHANGED <<exLoading, exError, exResult, abortControllerRef,
                           aborted>>
     /\ (/\ apiSpec.loaded
         /\ generated' # generated /\ Unknown(generated'.op)) =>
           /\ generated'.thrown =
                "Operation with ID \"" \o generated'.op \o "\" not found"
           /\ lastGenerated' = lastGenerated]_vars

\* executeById was given an unknown ID while another request was pending.
Wit_C15_UnknownWhilePending ==
  \E r, q \in Requests :
    /\ req[r].pc = "done" /\ req[r].ended = "notfound"
    /\ req[r].op = "deleteUser"
    /\ req[q].pc = "fetch" /\ exLoading

\* ========================================================= claims: useSearch
\* The elements of a list.
ToSet(list) == {list[i] : i \in DOMAIN list}

\* The elements of an optional list: none when it is undefined.
Elements(list) == IF list = undefinedValue THEN {} ELSE ToSet(list.items)

\* The query is found in the text: as a substring, or with fuzzy search
\* also as the characters of the query in order (the text minus some of
\* its characters).
RECURSIVE InOrder(_, _)
InOrder(query, text) ==
  \/ query = <<>>
  \/ /\ text # <<>>
     /\ IF Head(text) = Head(query) THEN InOrder(Tail(query), Tail(text))
        ELSE InOrder(query, Tail(text))

\* upper and lower case are the same when the search is not case sensitive
Folded(text) ==
  IF options.caseSensitive THEN text
  ELSE [i \in DOMAIN text |-> IF text[i] = "U" THEN "u" ELSE text[i]]

Found(query, text) ==
  \/ \E i, j \in 0..Len(text) :
       /\ i <= j
       /\ Folded(query) = [k \in 1..(j - i) |-> Folded(text)[i + k]]
  \/ options.fuzzySearch /\ InOrder(Folded(query), Folded(text))

\* The texts of an endpoint the search looks at.
TextsOf(endpoint) ==
  {endpoint.summary, endpoint.description, endpoint.operationId,
   endpoint.path}
  \cup Elements(endpoint.tags)
  \cup {p.name : p \in ToSet(endpoint.parameters)}
  \cup {p.description : p \in ToSet(endpoint.parameters)}
  \cup {r.description : r \in ToSet(endpoint.responses)}

\* No text query is active: the query is absent, empty or shorter than
\* minQueryLength.
NoTextQuery ==
  \/ filters.query = undefinedValue
  \/ Len(filters.query.value) = 0
  \/ Len(filters.query.value) < options.minQueryLength

\* The endpoint satisfies every filter that is active.
Satisfies(endpoint) ==
  /\ Elements(filters.methods) # {} =>
       endpoint.method \in Elements(filters.methods)
  /\ Elements(filters.tags) # {} =>
       Elements(endpoint.tags) \cap Elements(filters.tags) # {}
  /\ \A b \in BOOLEAN :
       /\ filters.deprecated = Bool(b) => endpoint.deprecated = b
       /\ filters.hasParameters = Bool(b) =>
            (endpoint.parameters # <<>>) = b
       /\ filters.hasRequestBody = Bool(b) => endpoint.requestBody = b
  /\ Elements(filters.responseStatusCodes) # {} =>
       {r.statusCode : r \in ToSet(endpoint.responses)}
         \cap Elements(filters.responseStatusCodes) # {}

\* C21: the results hold exactly the endpoints that satisfy every active
\* filter (methods, tags, deprecated, hasParameters, hasRequestBody,
\* responseStatusCodes) and, when a text query is active, have a text the
\* query is found in; each of them once, and no endpoint that fails an
\* active filter.
Thm_C21_ConjunctiveFilters ==
  /\ \A e \in ToSet(allEndpoints) :
       (\E i \in DOMAIN results : results[i].endpoint = e) <=>
         /\ Satisfies(e)
         /\ NoTextQuery \/
              \E text \in TextsOf(e) : Found(filters.query.value, text)
  /\ \A i, j \in DOMAIN results :
       results[i].endpoint = results[j].endpoint => i = j
  /\ \A i \in DOMAIN results : results[i].endpoint \in ToSet(allEndpoints)

\* Two filters and a text query are active; one endpoint is in the results,
\* the other one is not.
Wit_C21_FiltersAndQuery ==
  /\ Elements(filters.methods) # {}
  /\ filters.deprecated = Bool(FALSE)
  /\ ~NoTextQuery
  /\ Len(allEndpoints) = 2
  /\ Len(results) = 1

\* The place of an endpoint in the list the search was given.
InputIndex(endpoint) ==
  CHOOSE i \in DOMAIN allEndpoints : allEndpoints[i] = endpoint

\* C22: with a text query active the results are in order of score, highest
\* first, and results of equal score are in the order their endpoints have
\* in the input.
Thm_C22_SortedStable ==
  ~NoTextQuery =>
    \A i, j \in DOMAIN results :
      i < j =>
        /\ results[i].score >= results[j].score
        /\ results[i].score = results[j].score =>
             InputIndex(results[i].endpoint) < InputIndex(results[j].endpoint)

\* The sort moved the second endpoint of the input in front of the first.
Wit_C22_Reordered ==
  /\ ~NoTextQuery
  /\ Len(results) = 2
  /\ results[1].score > results[2].score
  /\ results[1].endpoint = allEndpoints[2]
  /\ results[2].endpoint = allEndpoints[1]

\* The query is a substring of a text of the field.
ExactIn(endpoint, query, field) ==
  LET texts ==
        CASE field = "summary" -> {endpoint.summary}
          [] field = "description" -> {endpoint.description}
          [] field = "operationId" -> {endpoint.operationId}
          [] field = "path" -> {endpoint.path}
          [] field = "tags" -> Elements(endpoint.tags)
          [] field = "parameters" ->
               {p.name : p \in ToSet(endpoint.parameters)}
               \cup {p.description : p \in ToSet(endpoint.parameters)}
          [] field = "responses" ->
               {r.description : r \in ToSet(endpoint.responses)}
  IN \E text \in texts :
       \E i, j \in 0..Len(text) :
         /\ i <= j
         /\ Folded(query) = [k \in 1..(j - i) |-> Folded(text)[i + k]]

\* The weights of the fields: summary 2.0, operationId 1.8, path 1.7,
\* description 1.5, tags 1.3, parameters 1.2, responses 1.1 (in tenths).
FieldWeight ==
  [summary |-> 20, operationId |-> 18, path |-> 17, description |-> 15,
   tags |-> 13, parameters |-> 12, responses |-> 11]

\* C23 as stated: with a text query active, a result whose endpoint has the
\* query as a substring of a field weighs at least as much as every result
\* that matched a single field of lower weight, whatever else it matched.
Orig_C23_WeightMonotonic ==
  ~NoTextQuery =>
    \A i, j \in DOMAIN results :
      \A f \in DOMAIN FieldWeight :
        (/\ Len(results[j].matchedFields) = 1
         /\ ExactIn(results[i].endpoint, filters.query.value, f)
         /\ FieldWeight[f] > FieldWeight[results[j].matchedFields[1]]) =>
          results[i].score >= results[j].score

\* C24: with no text query active (the query absent, empty or shorter than
\* minQueryLength) the results are the endpoints that pass the filters, in
\* the order of the input, each with score 1 and no matched field.
Thm_C24_NoQueryKeepsOrder ==
  NoTextQuery =>
    LET kept == SelectSeq(allEndpoints, Satisfies) IN
      /\ Len(results) = Len(kept)
      /\ \A i \in DOMAIN results :
           /\ results[i].endpoint = kept[i]
           /\ results[i].score = 42000
           /\ results[i].matchedFields = <<>>

\* A query of one character under minQueryLength 2, with a filter that one
\* of two endpoints fails.
Wit_C24_ShortQuery ==
  /\ filters.query = Str(<<"u">>)
  /\ options.minQueryLength = 2
  /\ filters.deprecated # undefinedValue
  /\ Len(allEndpoints) = 2
  /\ Len(results) = 1
  /\ results[1].score = 42000

\* ========================================================== claims: buildUrl
\* C25 as stated: for the same endpoint, base URL, pathParams and
\* queryParams the URL useCodeSnippet builds is the URL useExecuteOperation
\* builds.
Orig_C25_SameUrl ==
  (built.execute # <<>> /\ built.snippet # <<>>) =>
    built.snippet = built.execute

\* ============================================ claims: overlapping loadSpec
\* C26 as stated: loading is true whenever a loadSpec call (one started by
\* reload or waiting for its next attempt included) is in flight.
Orig_C26_LoadingWhileInFlight ==
  (\E c \in Calls : InFlight(c)) => loading

\* C27 as stated: once two overlapping loadSpec calls have both returned,
\* spec and error are those of the call that was started last: its spec and
\* no error when it succeeded, no spec and its error when it failed.
Orig_C27_LastStartedWins ==
  (/\ \A c \in Calls : call[c].pc = "done" /\ ~call[c].alone) =>
    \A c \in Calls :
      call[c].latest =>
        IF call[c].outcome = "error"
          THEN spec = nullSpec /\ error = call[c].lastError
          ELSE /\ spec # nullSpec
               /\ spec.src = (IF call[c].url = "" THEN "inline"
                              ELSE call[c].url)
               /\ error = nullError

\* ============================================ claims: overlapping execute
\* C28 as stated: result and error of a useExecuteOperation instance are
\* never both set.
Orig_C28_ResultXorError ==
  ~(exResult # nullResult /\ exError # nullError)

\* ================================================ claims: per-call config
\* C29 as stated: the retries and cacheDuration a loadSpec call is given
\* are the ones the load goes by, 0 included: the cached entry is returned
\* only if it is younger than the cacheDuration given (never, for 0), and
\* a failed attempt is followed by another one only while fewer than the
\* given retries have been made (never, for 0).
Orig_C29_ConfigTakesPrecedence ==
  [][\A c \in Calls :
       /\ (/\ call[c].pc = "started"
           /\ call[c].config.url # ""
           /\ call[c].config.cacheDuration # undefined) =>
            (call'[c].pc = "hit" <=>
               /\ call[c].config.url \in DOMAIN specCache
               /\ now - specCache[call[c].config.url].timestamp
                    < call[c].config.cacheDuration)
       /\ (/\ call[c].pc = "fetching"
           /\ call'[c].pc = "sleeping"
           /\ call[c].retries # undefined) =>
            call[c].attempt < call[c].retries]_vars

\* ================================================== claims: lookup by id
\* C30 as stated: executeById given the id of an endpoint of the loaded spec
\* executes that endpoint, and generate given it generates the snippet of
\* that endpoint; also for an endpoint whose id is the derived slug.
Orig_C30_IdExecutesEndpoint ==
  [][\A i \in DOMAIN apiSpec.endpoints :
       LET e == apiSpec.endpoints[i] IN
         /\ \A r \in Requests :
              (/\ apiSpec.loaded
               /\ ~Pending(r) /\ req'[r] # req[r]
               /\ req'[r].op = e.id) =>
                /\ req'[r].endpoint = e.id
                /\ req'[r].ended # "notfound"
         /\ (/\ apiSpec.loaded
             /\ generated' # generated /\ generated'.op = e.id) =>
               /\ generated'.thrown = ""
               /\ lastGenerated' = SnippetFor(e)]_vars

====
